---- MODULE Spec2Model ----
(***************************************************************************)
(* The typed in-process event bus of bratishka-rs (crates/core): the       *)
(* three queue policies, the routing table built by EventBusBuilder, the   *)
(* non-atomic EventBus::publish run by concurrent tasks, the drain task of *)
(* every isolated forwarder, the WorkerInputs::next multiplexer of every   *)
(* subscriber, the Worker::run loop with its shutdown receiver, and the    *)
(* stages of the CLI pipeline (apps/cli) up to its completion channel.     *)
(***************************************************************************)
EXTENDS Integers, Sequences, FiniteSets, TLC

\* ------------------------------------------------------------------ bounds
\* publish calls made in one run of the general specification
MaxPublish == 2
\* publish calls made in one run of the isolated-forwarder specification
\* (enough to fill the inbox, the hand of the drain task and the output)
MaxPublishIso == 20
\* in the isolated-forwarder specification only the first MaxOtherIso calls
\* may publish a "B" event
MaxOtherIso == 1
\* capacity declared for the FifoDropOldest input of subscriber "s1"
FifoCapacity == 1
\* output_buffer declared for the Isolated inputs
OutputBuffer == 1

\* publish calls made in one run of the multiplexer specification
MaxPublishMux == 4
\* events the source task publishes in one run of the worker specifications
MaxEmit == 2
\* shutdown_tx.send(()) calls made in one run
MaxShutdown == 1
\* publish calls made in one run of the wake-up specification
MaxPublishWake == 3
\* publish calls made in one run of the drain-termination specification
MaxPublishDrain == 3
\* calls of WorkerWiring::take made in one run
MaxTake == 4
\* capacity of every bounded FIFO input declared by the CLI workers
CliCapacity == 4
\* output buffer of the isolated input of the completion sink
CliOutputBuffer == 4

\* size of the internal inbox of an isolated forwarder
InboxSize == 16

\* Option::None
None == [none |-> TRUE]

\* tasks that call EventBus::publish: the entry point and a spawned worker
Publishers == {"main", "task"}
\* subscriber identities of the workers whose run-loop is spawned
WorkerIds == {"w1", "w2", "youtube.download", "youtube.extract_audio",
              "transcribe.audio", "analyze.sections", "compile.report",
              "cli.completion_sink"}

\* tasks started with tokio::spawn
Spawned == {"task"} \cup WorkerIds

\* event-type tags published by the tasks; "C" has no subscription
EventTypes == {"A", "B", "C"}

\* subscriber identities that are declared
SubscriberIds == {"s1", "s2"}

\* names of the queues that are allocated
QueueIds == SubscriberIds \X EventTypes

Latest1 == [kind |-> "Latest1"]
FifoDropOldest(capacity) == [kind |-> "FifoDropOldest", capacity |-> capacity]
Isolated(output_buffer) == [kind |-> "Isolated", output_buffer |-> output_buffer]
BoundedDropNewest(capacity) == [kind |-> "BoundedDropNewest", capacity |-> capacity]

InputSpec(event_type, queue_kind) ==
    [event_type |-> event_type, queue_kind |-> queue_kind]

SubscriptionSpec(subscriber_id, inputs) ==
    [subscriber_id |-> subscriber_id, inputs |-> inputs]

\* the subscriptions declared to the builder in the general specification
BusSubs ==
    << SubscriptionSpec("s1", << InputSpec("A", FifoDropOldest(FifoCapacity)),
                                 InputSpec("B", Latest1) >>),
       SubscriptionSpec("s2", << InputSpec("A", Isolated(OutputBuffer)) >>) >>

\* the subscriptions declared in the isolated-forwarder specification
IsoSubs ==
    << SubscriptionSpec("s2", << InputSpec("A", Isolated(OutputBuffer)) >>),
       SubscriptionSpec("s1", << InputSpec("A", FifoDropOldest(1)),
                                 InputSpec("B", Latest1) >>) >>

\* ---------------------------------------------------------------- builder
RECURSIVE FlatInputs(_)
\* the declared inputs in the order build() visits them
FlatInputs(ss) ==
    IF ss = <<>> THEN <<>>
    ELSE [i \in 1..Len(Head(ss).inputs) |->
            [subscriber_id |-> Head(ss).subscriber_id,
             event_type    |-> Head(ss).inputs[i].event_type,
             queue_kind    |-> Head(ss).inputs[i].queue_kind]]
         \o FlatInputs(Tail(ss))

\* a queue is named by the input that declared it
QueueOf(r) == <<r.subscriber_id, r.event_type>>

Route(r) == [subscriber_id |-> r.subscriber_id,
             inbox         |-> r.queue_kind.kind,
             queue         |-> QueueOf(r)]

\* faulty variant: routes.insert(event_type, vec![Route {..}]), a later
\* route of a type replaces the earlier ones
BuildTable_insert(ss) ==
    LET flat  == FlatInputs(ss)
        types == {flat[i].event_type : i \in 1..Len(flat)}
        routesOf(et) == SelectSeq(flat, LAMBDA r : r.event_type = et)
    IN [et \in types |-> << Route(routesOf(et)[Len(routesOf(et))]) >>]

\* routes.entry(event_type).or_default().push(Route {..})
BuildTable(ss) ==
    LET flat  == FlatInputs(ss)
        types == {flat[i].event_type : i \in 1..Len(flat)}
        routesOf(et) == SelectSeq(flat, LAMBDA r : r.event_type = et)
    IN [et \in types |->
          [i \in 1..Len(routesOf(et)) |-> Route(routesOf(et)[i])]]

\* faulty variant: every subscriber is wired to the inputs of all
\* subscriptions
BuildWiring_shared(ss) ==
    LET ids == {ss[i].subscriber_id : i \in 1..Len(ss)}
        lat == SelectSeq(FlatInputs(ss), LAMBDA r : r.queue_kind.kind = "Latest1")
        ffs == SelectSeq(FlatInputs(ss), LAMBDA r : r.queue_kind.kind # "Latest1")
    IN [id \in ids |->
          [latest |-> [i \in 1..Len(lat) |-> QueueOf(lat[i])],
           fifos  |-> [i \in 1..Len(ffs) |->
                         [queue    |-> QueueOf(ffs[i]),
                          receiver |-> ffs[i].queue_kind.kind]]]]

\* faulty variant: every input is wired as a latest slot
BuildWiring_as_latest(ss) ==
    LET ids == {ss[i].subscriber_id : i \in 1..Len(ss)}
        specOf(id) == CHOOSE i \in 1..Len(ss) : ss[i].subscriber_id = id
        ins(id) == FlatInputs(<<ss[specOf(id)]>>)
    IN [id \in ids |->
          [latest |-> [i \in 1..Len(ins(id)) |-> QueueOf(ins(id)[i])],
           fifos  |-> <<>>]]

\* wiring.insert(subscriber_id, WorkerInputs { latest, fifos, .. })
BuildWiring(ss) ==
    LET ids == {ss[i].subscriber_id : i \in 1..Len(ss)}
        specOf(id) == CHOOSE i \in 1..Len(ss) : ss[i].subscriber_id = id
        ins(id) == FlatInputs(<<ss[specOf(id)]>>)
        lat(id) == SelectSeq(ins(id), LAMBDA r : r.queue_kind.kind = "Latest1")
        ffs(id) == SelectSeq(ins(id), LAMBDA r : r.queue_kind.kind # "Latest1")
    IN [id \in ids |->
          [latest |-> [i \in 1..Len(lat(id)) |-> QueueOf(lat(id)[i])],
           fifos  |-> [i \in 1..Len(ffs(id)) |->
                         [queue    |-> QueueOf(ffs(id)[i]),
                          receiver |-> ffs(id)[i].queue_kind.kind]]]]

\* the queues allocated by build(), by policy, with their declared sizes
QueuesOfKind(ss, k) ==
    {QueueOf(FlatInputs(ss)[i]) :
        i \in {n \in 1..Len(FlatInputs(ss)) : FlatInputs(ss)[n].queue_kind.kind = k}}

\* faulty variant: a drain task for every FIFO-class input
DrainTasks_per_fifo(ss) ==
    QueuesOfKind(ss, "Isolated") \cup QueuesOfKind(ss, "FifoDropOldest")

\* tasks.tokio.push(drain_task): the queues whose drain task build() returns
DrainTasks(ss) == QueuesOfKind(ss, "Isolated")

\* every queue allocated by build()
AllQueues(ss) == {QueueOf(FlatInputs(ss)[i]) : i \in 1..Len(FlatInputs(ss))}

KindOfQueue(ss, q) ==
    LET i == CHOOSE n \in 1..Len(FlatInputs(ss)) : QueueOf(FlatInputs(ss)[n]) = q
    IN FlatInputs(ss)[i].queue_kind

\* str::trim on the identities and tags used here: "" and " " are blank
trim(str) == IF str = " " THEN "" ELSE str

RECURSIVE validate_inputs(_, _)
\* the loop over s.inputs of validate, seen_inputs holding the earlier tags:
\* the first complaint, or "Ok"
validate_inputs(ins, seen_inputs) ==
    IF ins = <<>> THEN "Ok"
    ELSE LET i == Head(ins)
         IN IF trim(i.event_type) = "" THEN "empty event_type"
            ELSE IF i.event_type \in seen_inputs THEN "duplicate input event_type"
            ELSE IF /\ i.queue_kind.kind \in {"FifoDropOldest", "BoundedDropNewest"}
                    /\ ~(i.queue_kind.capacity > 0)
            THEN "capacity must be > 0"
            ELSE IF /\ i.queue_kind.kind = "Isolated"
                    /\ ~(i.queue_kind.output_buffer > 0)
            THEN "output_buffer must be > 0"
            ELSE validate_inputs(Tail(ins), seen_inputs \cup {i.event_type})

RECURSIVE validate_subs(_, _)
\* the loop over subs of validate, seen_subscribers holding the earlier ids
validate_subs(subs, seen_subscribers) ==
    IF subs = <<>> THEN "Ok"
    ELSE LET sub == Head(subs)
         IN IF trim(sub.subscriber_id) = "" THEN "empty subscriber_id"
            ELSE IF sub.subscriber_id \in seen_subscribers
            THEN "duplicate subscriber_id"
            ELSE IF sub.inputs = <<>> THEN "no inputs"
            ELSE IF validate_inputs(sub.inputs, {}) # "Ok"
            THEN validate_inputs(sub.inputs, {})
            ELSE validate_subs(Tail(subs),
                               seen_subscribers \cup {sub.subscriber_id})

\* faulty variant: only the first subscription is validated
validate_first(subs) ==
    IF subs = <<>> THEN "Ok" ELSE validate_subs(<< Head(subs) >>, {})

\* validate(&self.subs): "Ok" or the message of the error returned
validate(subs) == validate_subs(subs, {})

\* an input of the unimplemented policy is declared
UsesDropNewest(ss) ==
    \E i \in 1..Len(FlatInputs(ss)) :
        FlatInputs(ss)[i].queue_kind.kind = "BoundedDropNewest"

\* how build() ends: validate(..)? returns the error, the loop over the
\* inputs reaches unimplemented!() on a BoundedDropNewest input, or Ok((..))
build(subs) ==
    IF validate(subs) # "Ok" THEN "Err"
    ELSE IF UsesDropNewest(subs) THEN "Panic"
    ELSE "Ok"

\* faulty variant: HashMap::get, the entry stays in the map
take_get(map, id) ==
    [result |-> IF id \in DOMAIN map THEN map[id] ELSE None, map |-> map]

\* WorkerWiring::take: self.inputs.remove(subscriber_id)
take(map, id) ==
    [result |-> IF id \in DOMAIN map THEN map[id] ELSE None,
     map    |-> [s \in DOMAIN map \ {id} |-> map[s]]]

\* ----------------------------------------------------------------- queues
\* faulty variant: a full buffer grows instead of evicting its oldest item
push_no_evict(b, capacity, value) == Append(b, value)

\* faulty variant: a full queue refuses the new item instead of evicting the oldest
push_drop_newest(b, capacity, value) ==
    IF Len(b) >= capacity THEN b ELSE Append(b, value)

\* FifoDropOldestQueue::push_overwrite on the VecDeque b
push_overwrite(b, capacity, value) ==
    IF Len(b) >= capacity THEN Append(Tail(b), value) ELSE Append(b, value)

\* VecDeque::pop_front / Option::take: the item removed, None when empty
\* a read that removes the front item without returning it
pop_front_lost(b) == None

pop_front(b) == IF b = <<>> THEN None ELSE Head(b)

\* faulty variant: try_recv hands out the front item and leaves it queued
rest_keep(b) == b

\* what pop_front leaves in the queue
rest(b) == IF b = <<>> THEN <<>> ELSE Tail(b)

\* faulty variant: an occupied slot keeps its old value
set_keep_unread(s, value) == IF s # <<>> THEN s ELSE <<value>>

\* Latest1Queue::set on the slot (a sequence of length 0 or 1)
set(s, value) == <<value>>

\* faulty variant: a full inbox makes the sender wait for room (send().await)
send_await(chan, closed, value) ==
    IF closed THEN [res |-> "Closed", chan |-> chan]
    ELSE IF Len(chan) >= InboxSize THEN [res |-> "Pending", chan |-> chan]
    ELSE [res |-> "Ok", chan |-> Append(chan, value)]

\* faulty variant: a full inbox evicts its oldest item and accepts the new one
try_send_evict(chan, closed, value) ==
    IF closed THEN [res |-> "Closed", chan |-> chan]
    ELSE IF Len(chan) >= InboxSize THEN [res |-> "Ok", chan |-> Append(Tail(chan), value)]
    ELSE [res |-> "Ok", chan |-> Append(chan, value)]

\* IsolatedForwarder::try_send: mpsc try_send on the inbox of size 16
\* an inbox that rejects while one place is still free
try_send_reject_early(chan, closed, value) ==
    IF closed THEN [res |-> "Closed", chan |-> chan]
    ELSE IF Len(chan) + 1 >= InboxSize THEN [res |-> "Full", chan |-> chan]
    ELSE [res |-> "Ok", chan |-> Append(chan, value)]

try_send(chan, closed, value) ==
    IF closed THEN [res |-> "Closed", chan |-> chan]
    ELSE IF Len(chan) >= InboxSize THEN [res |-> "Full", chan |-> chan]
    ELSE [res |-> "Ok", chan |-> Append(chan, value)]

\* faulty variant: the increment is lost
fetch_add_lost(v) == v

\* AtomicU64::fetch_add(1): the value stored afterwards
fetch_add(v) == v + 1

\* faulty variant: an unrouted publish is not counted
record_unrouted_noop(total) == total

\* BusMetrics::record_unrouted on unrouted_publish_total
record_unrouted(total) == fetch_add(total)

\* faulty variant: every delivery is counted as a drop
count_every(ok, drops) == fetch_add(drops)

\* if !ok { route.drops_total.fetch_add(1) }
count_drop(ok, drops) == IF ~ok THEN fetch_add(drops) ELSE drops

\* faulty variant: the loop over the routes stops at the first rejected delivery
next_route_until_reject(i, n, ok) == IF ok /\ i < n THEN i + 1 ELSE 0

\* for route in routes: the position after route i of n, 0 past the last
next_route(i, n, ok) == IF i < n THEN i + 1 ELSE 0

\* ------------------------------------------------------------------ state
VARIABLES
    table,                  \* Routes.table: event type -> sequence of routes
    wiring,                 \* the WorkerInputs built for every subscriber
    decl,                   \* the declarations the bus was built from
    strict_routing,         \* BusConfig.strict_routing
    session_id,             \* BusConfig.session_id
    next_ingest_seq,        \* EventBusInner.next_ingest_seq
    unrouted_publish_total, \* BusMetrics.unrouted_publish_total
    drops_total,            \* Route.drops_total, per queue
    buf,                    \* FifoDropOldestInner.buf, per queue
    slot,                   \* Latest1Queue.slot, per queue
    inbox,                  \* inbox channel of an isolated forwarder
    out,                    \* output channel of an isolated forwarder
    drain,                  \* the drain task of an isolated forwarder
    permit,                 \* the Notify permit of every subscriber
    pub,                    \* the publish call every task is in
    aborted,                \* the process has aborted
    inputs,                 \* WorkerInputs::next of every subscriber
    calls,                  \* history: the publish calls, in fetch_add order
    attempts,               \* history: the deliveries tried, per queue
    taken,                  \* history: the items try_recv returned, per queue
    pushAfterRead,          \* history: a delivery followed a read, per queue
    evicted,                \* history: the items a delivery displaced, per queue
    waited,                 \* history: returns of other inputs while pending
    run,                    \* Worker::run of every subscriber
    shutdown,               \* unread messages of every shutdown receiver
    done,                   \* the completion channel and its sender
    uuid,                   \* the ids Uuid::new_v4 has handed out so far
    handled,                \* history: the handler invocations that returned
    built,                  \* how EventBusBuilder::build ended
    takes                   \* history: the calls of WorkerWiring::take

vars == << table, wiring, decl, strict_routing, session_id, next_ingest_seq,
           unrouted_publish_total, drops_total, buf, slot, inbox, out, drain,
           permit, pub, aborted, inputs, calls, attempts, taken,
           pushAfterRead, evicted, waited, run, shutdown, done, uuid, handled,
           built, takes >>

config == << table, wiring, decl, strict_routing, session_id, built, takes >>
history == << calls, attempts, taken, pushAfterRead, evicted, waited >>
workers == << run, shutdown, done, uuid, handled >>

Queues == AllQueues(decl)
Fifos == QueuesOfKind(decl, "FifoDropOldest")
Latests == QueuesOfKind(decl, "Latest1")
Isolateds == QueuesOfKind(decl, "Isolated")
Subscribers == DOMAIN wiring

IdlePublish == [pc |-> "idle", enriched_event |-> None, i |-> 0]
IdleInputs == [pc |-> "idle", j |-> 0, snaps |-> <<>>, start |-> 0, fifo_index |-> 0]

\* a subscriber whose next() is called directly, without a run-loop
NoRun == [pc |-> "absent", parent |-> None]

\* a run-loop at the top of its loop, about to enter select!
AtSelect == [pc |-> "select", parent |-> None]

\* no completion channel
NoChannel == [sender |-> "none", result |-> None]

\* EventBusBuilder::build followed by the start of the drain tasks: the bus,
\* its queues and the multiplexers, before any task publishes
Built(ss, strict) ==
    /\ decl = ss
    /\ table = BuildTable(ss)
    /\ wiring = BuildWiring(ss)
    /\ strict_routing = strict
    /\ session_id = "session"
    /\ next_ingest_seq = 0
    /\ unrouted_publish_total = 0
    /\ drops_total = [q \in AllQueues(ss) |-> 0]
    /\ buf = [q \in QueuesOfKind(ss, "FifoDropOldest") |-> <<>>]
    /\ slot = [q \in QueuesOfKind(ss, "Latest1") |-> <<>>]
    /\ inbox = [q \in QueuesOfKind(ss, "Isolated") |-> <<>>]
    /\ out = [q \in QueuesOfKind(ss, "Isolated") |-> <<>>]
    /\ drain = [q \in DrainTasks(ss) |-> [pc |-> "recv", value |-> None]]
    /\ permit = [s \in DOMAIN BuildWiring(ss) |-> FALSE]
    /\ aborted = FALSE
    /\ inputs = [s \in DOMAIN BuildWiring(ss) |-> IdleInputs]
    /\ calls = <<>>
    /\ attempts = [q \in AllQueues(ss) |-> <<>>]
    /\ taken = [q \in AllQueues(ss) |-> <<>>]
    /\ pushAfterRead = [q \in AllQueues(ss) |-> FALSE]
    /\ evicted = [q \in AllQueues(ss) |-> {}]
    /\ waited = [q \in AllQueues(ss) |-> 0]
    /\ uuid = 0
    /\ handled = [s \in DOMAIN BuildWiring(ss) |-> <<>>]
    /\ built = "Ok"
    /\ takes = <<>>

\* a bus whose subscribers call next() directly; no run-loop is spawned
InitWith(ss, strict) ==
    /\ Built(ss, strict)
    /\ pub = [p \in Publishers |-> IdlePublish]
    /\ run = [s \in DOMAIN BuildWiring(ss) |-> NoRun]
    /\ shutdown = [sent |-> 0, ready |-> [s \in DOMAIN BuildWiring(ss) |-> FALSE]]
    /\ done = NoChannel

\* the bus and the run-loop of every subscriber spawned with a receiver
\* resubscribed to the shutdown channel; tasks are the other publishers
InitWorkers(ss, strict, tasks) ==
    /\ Built(ss, strict)
    /\ pub = [p \in tasks \cup DOMAIN BuildWiring(ss) |-> IdlePublish]
    /\ run = [s \in DOMAIN BuildWiring(ss) |-> AtSelect]
    /\ shutdown = [sent |-> 0, ready |-> [s \in DOMAIN BuildWiring(ss) |-> FALSE]]
    /\ done = NoChannel

\* the builder holding the declared subscriptions before build() is called:
\* no bus, no queue, no wiring and no drain task exists
NoBus(ss) ==
    /\ decl = ss
    /\ built = "none"
    /\ table = <<>>
    /\ wiring = <<>>
    /\ strict_routing = FALSE
    /\ session_id = "session"
    /\ next_ingest_seq = 0
    /\ unrouted_publish_total = 0
    /\ drops_total = <<>>
    /\ buf = <<>>
    /\ slot = <<>>
    /\ inbox = <<>>
    /\ out = <<>>
    /\ drain = <<>>
    /\ permit = <<>>
    /\ aborted = FALSE
    /\ inputs = <<>>
    /\ calls = <<>>
    /\ attempts = <<>>
    /\ taken = <<>>
    /\ pushAfterRead = <<>>
    /\ evicted = <<>>
    /\ waited = <<>>
    /\ uuid = 0
    /\ handled = <<>>
    /\ takes = <<>>

\* the builder before build() is called, no run-loop declared
Unbuilt(ss) ==
    /\ NoBus(ss)
    /\ pub = [p \in Publishers |-> IdlePublish]
    /\ run = <<>>
    /\ shutdown = [sent |-> 0, ready |-> <<>>]
    /\ done = NoChannel

\* EventBusBuilder::build: the error of validate is returned before anything
\* is made; unimplemented!() panics in the caller's thread; otherwise the
\* routing table, the queues, the wiring and the drain tasks are returned,
\* the drain tasks as futures that nobody has spawned yet
Construct ==
    /\ built = "none"
    /\ built' = build(decl)
    /\ UNCHANGED << decl, strict_routing, session_id, next_ingest_seq,
                    unrouted_publish_total, calls, uuid, takes, run,
                    shutdown, done >>
    /\ aborted' = (build(decl) = "Panic")
    /\ IF build(decl) = "Ok"
       THEN /\ table' = BuildTable(decl)
            /\ wiring' = BuildWiring(decl)
            /\ drops_total' = [q \in AllQueues(decl) |-> 0]
            /\ buf' = [q \in QueuesOfKind(decl, "FifoDropOldest") |-> <<>>]
            /\ slot' = [q \in QueuesOfKind(decl, "Latest1") |-> <<>>]
            /\ inbox' = [q \in QueuesOfKind(decl, "Isolated") |-> <<>>]
            /\ out' = [q \in QueuesOfKind(decl, "Isolated") |-> <<>>]
            /\ drain' = [q \in DrainTasks(decl) |->
                            [pc |-> "created", value |-> None]]
            /\ permit' = [s \in DOMAIN BuildWiring(decl) |-> FALSE]
            /\ inputs' = [s \in DOMAIN BuildWiring(decl) |-> IdleInputs]
            /\ attempts' = [q \in AllQueues(decl) |-> <<>>]
            /\ taken' = [q \in AllQueues(decl) |-> <<>>]
            /\ pushAfterRead' = [q \in AllQueues(decl) |-> FALSE]
            /\ evicted' = [q \in AllQueues(decl) |-> {}]
            /\ waited' = [q \in AllQueues(decl) |-> 0]
            /\ handled' = [s \in DOMAIN BuildWiring(decl) |-> <<>>]
       ELSE UNCHANGED << table, wiring, drops_total, buf, slot, inbox, out,
                         drain, permit, inputs, attempts, taken,
                         pushAfterRead, evicted, waited, handled >>

\* build() called by a caller that goes on as it was
Build == Construct /\ UNCHANGED pub

\* wiring.take(id) on the wiring that build returned
Take(id) ==
    /\ built = "Ok"
    /\ Len(takes) < MaxTake
    /\ wiring' = take(wiring, id).map
    /\ takes' = Append(takes, [subscriber_id |-> id,
                               result |-> take(wiring, id).result])
    /\ UNCHANGED << table, decl, strict_routing, session_id, built,
                    next_ingest_seq, unrouted_publish_total, drops_total,
                    buf, slot, inbox, out, drain, permit, aborted, inputs,
                    calls, attempts, taken, pushAfterRead, evicted, waited,
                    uuid, handled, pub, run, shutdown, done >>

\* ---------------------------------------------------------------- publish
\* EnrichedEvent { event, session_id, ingest_ns, .. }
EnrichedEvent(event_type, ingest_ns) ==
    [event_type |-> event_type, ingest_ns |-> ingest_ns, session_id |-> session_id]

\* faulty variant: the notification is dropped when nobody is waiting
notify_one_lost(perm, s) == perm

\* Notify::notify_one on the wake signal of subscriber s: a waiter is woken,
\* or the permit is stored for the next notified().await
notify_one(perm, s) == [perm EXCEPT ![s] = TRUE]

\* RouteInbox::try_deliver: the result and the queues and permits afterwards
try_deliver(route, event) ==
    LET q == route.queue
        s == route.subscriber_id
    IN CASE route.inbox = "Latest1" ->
              [ok |-> TRUE, res |-> "Ok",
               slot |-> [slot EXCEPT ![q] = set(@, event)],
               buf |-> buf, inbox |-> inbox,
               permit |-> notify_one(permit, s)]
         [] route.inbox = "FifoDropOldest" ->
              [ok |-> TRUE, res |-> "Ok",
               buf |-> [buf EXCEPT ![q] =
                          push_overwrite(@, KindOfQueue(decl, q).capacity, event)],
               slot |-> slot, inbox |-> inbox,
               permit |-> notify_one(permit, s)]
         [] route.inbox = "Isolated" ->
              LET r == try_send(inbox[q], drain[q].pc = "done", event)
              IN [ok |-> r.res = "Ok", res |-> r.res,
                  inbox |-> [inbox EXCEPT ![q] = r.chan],
                  buf |-> buf, slot |-> slot, permit |-> permit]

\* faulty variant: HashMap::remove, the routes of the type leave the table
get_remove(t, et) ==
    [routes |-> IF et \in DOMAIN t THEN t[et] ELSE None,
     table  |-> [x \in DOMAIN t \ {et} |-> t[x]]]

\* self.inner.routes.table.get(event_type): the routes are borrowed from a
\* table behind an Arc, which stays as it is
get(t, et) ==
    [routes |-> IF et \in DOMAIN t THEN t[et] ELSE None, table |-> t]

\* what build() fixed besides the routing table
fixed == << wiring, decl, strict_routing, session_id, built, takes >>

\* publish() up to the route lookup, for an event type that has routes
PublishRouted(p, et, limit) ==
    /\ ~aborted
    /\ pub[p].pc = "idle"
    /\ next_ingest_seq < limit
    /\ et \in DOMAIN table
    /\ next_ingest_seq' = fetch_add(next_ingest_seq)
    /\ table' = get(table, et).table
    /\ pub' = [pub EXCEPT ![p] = [pc |-> "deliver",
                                  enriched_event |-> EnrichedEvent(et, next_ingest_seq),
                                  i |-> 1]]
    /\ calls' = Append(calls, [by |-> p, event_type |-> et,
                               ingest_ns |-> next_ingest_seq, end |-> "running"])
    /\ UNCHANGED << workers, fixed, unrouted_publish_total, drops_total, buf, slot,
                    inbox, out, drain, permit, aborted, inputs, attempts,
                    taken, pushAfterRead, evicted, waited >>

\* the items a delivery on route displaces: the front of a full bounded
\* FIFO, the unread value of a latest slot
displaced(route) ==
    LET q == route.queue
    IN CASE route.inbox = "Latest1" -> {slot[q][i] : i \in 1..Len(slot[q])}
         [] route.inbox = "FifoDropOldest" ->
              IF Len(buf[q]) >= KindOfQueue(decl, q).capacity
              THEN {pop_front(buf[q])} ELSE {}
         [] route.inbox = "Isolated" -> {}

\* position in calls of the publish call task p is in
CallOf(p) ==
    CHOOSE n \in 1..Len(calls) :
        calls[n].by = p /\ calls[n].ingest_ns = pub[p].enriched_event.ingest_ns

\* one iteration of the loop over the routes: try_deliver, then count a drop
Deliver(p) ==
    /\ ~aborted
    /\ pub[p].pc = "deliver"
    /\ LET e      == pub[p].enriched_event
           routes == table[e.event_type]
           route  == routes[pub[p].i]
           q      == route.queue
           d      == try_deliver(route, e)
       IN /\ d.res \in {"Ok", "Full", "Closed"}
          /\ buf' = d.buf
          /\ slot' = d.slot
          /\ inbox' = d.inbox
          /\ permit' = d.permit
          /\ drops_total' = [drops_total EXCEPT ![q] = count_drop(d.ok, @)]
          /\ attempts' = [attempts EXCEPT ![q] = Append(@, [event |-> e, ok |-> d.ok])]
          /\ pushAfterRead' = [pushAfterRead EXCEPT ![q] = @ \/ taken[q] # <<>>]
          /\ evicted' = [evicted EXCEPT ![q] = @ \cup displaced(route)]
          /\ IF next_route(pub[p].i, Len(routes), d.ok) # 0
             THEN /\ pub' = [pub EXCEPT ![p].i = next_route(@, Len(routes), d.ok)]
                  /\ calls' = calls
             ELSE /\ pub' = [pub EXCEPT ![p] = IdlePublish]
                  /\ calls' = [calls EXCEPT ![CallOf(p)].end = "returned"]
    /\ UNCHANGED << workers, config, next_ingest_seq, unrouted_publish_total, out, drain,
                    aborted, inputs, taken, waited >>

\* publish() of an event type without routes, strict routing disabled
PublishUnrouted(p, et, limit) ==
    /\ ~aborted
    /\ pub[p].pc = "idle"
    /\ next_ingest_seq < limit
    /\ et \notin DOMAIN table
    /\ ~strict_routing
    /\ next_ingest_seq' = fetch_add(next_ingest_seq)
    /\ unrouted_publish_total' = record_unrouted(unrouted_publish_total)
    /\ calls' = Append(calls, [by |-> p, event_type |-> et,
                               ingest_ns |-> next_ingest_seq, end |-> "returned"])
    /\ UNCHANGED << workers, config, drops_total, buf, slot, inbox, out, drain, permit,
                    pub, aborted, inputs, attempts, taken, pushAfterRead,
                    evicted, waited >>

\* what panic! does to the process: a panic of the entry point ends the
\* process; a panic inside a spawned task ends the process when the build
\* aborts on panic and only that task when the build unwinds
PanicOutcomes(p) ==
    IF p \in Spawned THEN {"abort", "unwind"} ELSE {"abort"}

\* publish() of an event type without routes, strict routing enabled
PublishPanic(p, et, limit) ==
    /\ ~aborted
    /\ pub[p].pc = "idle"
    /\ next_ingest_seq < limit
    /\ et \notin DOMAIN table
    /\ strict_routing
    /\ next_ingest_seq' = fetch_add(next_ingest_seq)
    /\ unrouted_publish_total' = record_unrouted(unrouted_publish_total)
    /\ calls' = Append(calls, [by |-> p, event_type |-> et,
                               ingest_ns |-> next_ingest_seq, end |-> "panicked"])
    /\ \E o \in PanicOutcomes(p) :
          /\ aborted' = (o = "abort")
          /\ pub' = [pub EXCEPT ![p].pc = IF o = "abort" THEN @ ELSE "panicked"]
    /\ UNCHANGED << workers, config, drops_total, buf, slot, inbox, out, drain, permit,
                    inputs, attempts, taken, pushAfterRead, evicted, waited >>

\* ------------------------------------------------------------- drain task
\* the subscriber whose multiplexer reads queue q
OwnerOf(q) == q[1]

\* inbox_rx.recv().await of the drain task returns the oldest inbox item
DrainRecv(q) ==
    /\ ~aborted
    /\ q \in Isolateds
    /\ drain[q].pc = "recv"
    /\ inbox[q] # <<>>
    /\ drain' = [drain EXCEPT ![q] = [pc |-> "send", value |-> pop_front(inbox[q])]]
    /\ inbox' = [inbox EXCEPT ![q] = rest(@)]
    /\ UNCHANGED << workers, config, next_ingest_seq, unrouted_publish_total, drops_total,
                    buf, slot, out, permit, pub, aborted, inputs, history >>

\* faulty variant: the hand-off does not wait for room, a value that finds
\* the output channel full is discarded
DrainSend_discard(q) ==
    /\ ~aborted
    /\ q \in Isolateds
    /\ drain[q].pc = "send"
    /\ out' = [out EXCEPT ![q] =
                 IF Len(@) < KindOfQueue(decl, q).output_buffer
                 THEN Append(@, drain[q].value) ELSE @]
    /\ drain' = [drain EXCEPT ![q] = [pc |-> "recv", value |-> None]]
    /\ permit' = notify_one(permit, OwnerOf(q))
    /\ UNCHANGED << workers, config, next_ingest_seq, unrouted_publish_total, drops_total,
                    buf, slot, inbox, pub, aborted, inputs, history >>

\* out_tx.send(value).await completes once the output channel has room,
\* then notify_any.notify_one()
\* out_rx of q is dropped: the SubscriberInputs that holds it went away
\* when the run-loop of its owner returned or its task ended
ReceiverDropped(q) == run[OwnerOf(q)].pc \in {"returned", "panicked"}

\* every handle of the bus is dropped, and with the last one the routing
\* table and the inbox_tx of each forwarder: a task drops its handle
\* explicitly and a run-loop when it ends
SendersDropped ==
    \A p \in DOMAIN pub :
        \/ pub[p].pc = "dropped"
        \/ p \in DOMAIN run /\ run[p].pc \in {"returned", "panicked"}

DrainSend(q) ==
    /\ ~aborted
    /\ q \in Isolateds
    /\ drain[q].pc = "send"
    /\ ~ReceiverDropped(q)
    /\ Len(out[q]) < KindOfQueue(decl, q).output_buffer
    /\ out' = [out EXCEPT ![q] = Append(@, drain[q].value)]
    /\ drain' = [drain EXCEPT ![q] = [pc |-> "recv", value |-> None]]
    /\ permit' = notify_one(permit, OwnerOf(q))
    /\ UNCHANGED << workers, config, next_ingest_seq, unrouted_publish_total, drops_total,
                    buf, slot, inbox, pub, aborted, inputs, history >>

\* out_tx.send(value).await fails because out_rx is dropped, also for a send
\* that was waiting for room: the value is lost, the loop breaks, the task
\* ends and inbox_rx is dropped with it
DrainSendErr(q) ==
    /\ ~aborted
    /\ q \in Isolateds
    /\ drain[q].pc = "send"
    /\ ReceiverDropped(q)
    /\ drain' = [drain EXCEPT ![q] = [pc |-> "done", value |-> None]]
    /\ UNCHANGED << workers, config, next_ingest_seq, unrouted_publish_total, drops_total,
                    buf, slot, inbox, out, permit, pub, aborted, inputs, history >>

\* faulty variant: recv() gives None as soon as the inbox is empty
DrainClosed_when_empty(q) ==
    /\ ~aborted
    /\ q \in Isolateds
    /\ drain[q].pc = "recv"
    /\ inbox[q] = <<>>
    /\ drain' = [drain EXCEPT ![q] = [pc |-> "done", value |-> None]]
    /\ UNCHANGED << workers, config, next_ingest_seq, unrouted_publish_total, drops_total,
                    buf, slot, inbox, out, permit, pub, aborted, inputs, history >>

\* inbox_rx.recv().await gives None, the inbox being empty and every
\* inbox_tx dropped: the while-let loop and the task end
DrainClosed(q) ==
    /\ ~aborted
    /\ q \in Isolateds
    /\ drain[q].pc = "recv"
    /\ inbox[q] = <<>>
    /\ SendersDropped
    /\ drain' = [drain EXCEPT ![q] = [pc |-> "done", value |-> None]]
    /\ UNCHANGED << workers, config, next_ingest_seq, unrouted_publish_total, drops_total,
                    buf, slot, inbox, out, permit, pub, aborted, inputs, history >>

\* task p drops its handle of the bus
DropBus(p) ==
    /\ ~aborted
    /\ pub[p].pc = "idle"
    /\ pub' = [pub EXCEPT ![p].pc = "dropped"]
    /\ UNCHANGED << workers, config, next_ingest_seq, unrouted_publish_total, drops_total,
                    buf, slot, inbox, out, drain, permit, aborted, inputs, history >>

\* ------------------------------------------------------ WorkerInputs::next
\* faulty variant: the snapshots collected are ignored and the scan of the
\* FIFO class follows in any case
AfterLatest_fall_through(s, snaps) ==
    IF wiring[s].fifos # <<>>
    THEN [inputs[s] EXCEPT !.pc = "fifo", !.j = 0, !.snaps = <<>>,
                           !.start = inputs[s].fifo_index]
    ELSE [inputs[s] EXCEPT !.pc = "wait", !.j = 0, !.snaps = <<>>]

\* where next() goes once every latest slot has been drained into snaps
AfterLatest(s, snaps) ==
    IF snaps # <<>>
    THEN [inputs[s] EXCEPT !.pc = "idle", !.j = 0, !.snaps = <<>>]
    ELSE IF wiring[s].fifos # <<>>
    THEN [inputs[s] EXCEPT !.pc = "fifo", !.j = 0, !.snaps = <<>>,
                           !.start = inputs[s].fifo_index]
    ELSE [inputs[s] EXCEPT !.pc = "wait", !.j = 0, !.snaps = <<>>]

\* the top of the loop of next()
LoopTop(s) ==
    IF wiring[s].latest # <<>>
    THEN [inputs[s] EXCEPT !.pc = "latest", !.j = 1, !.snaps = <<>>]
    ELSE AfterLatest(s, <<>>)

\* faulty variant: next() is polled while the handler of s runs as well
Polls_while_handling(s) == run[s].pc \in {"absent", "select", "handle"}

\* next() of s is being polled: s calls it directly, or the run-loop of s is
\* in select! (it is not inside its handler or inside publish)
Polls(s) == run[s].pc = "absent" \/ (run[s].pc = "select" /\ pub[s].pc = "idle")

\* the subscriber calls next()
NextCall(s) ==
    /\ ~aborted
    /\ s \in Subscribers
    /\ Polls(s)
    /\ inputs[s].pc = "idle"
    /\ inputs' = [inputs EXCEPT ![s] = LoopTop(s)]
    /\ UNCHANGED << workers, config, next_ingest_seq, unrouted_publish_total, drops_total,
                    buf, slot, inbox, out, drain, permit, pub, aborted, history >>

\* l.queue.try_recv() on the j-th latest-slot input; after the last one
\* next() returns the snapshots it collected, which a run-loop answers with
\* todo!()
LatestRecv(s) ==
    /\ ~aborted
    /\ s \in Subscribers
    /\ Polls(s)
    /\ inputs[s].pc = "latest"
    /\ LET q     == wiring[s].latest[inputs[s].j]
           e     == pop_front(slot[q])
           snaps == IF e # None
                    THEN Append(inputs[s].snaps, [event_type |-> q[2], event |-> e])
                    ELSE inputs[s].snaps
       IN /\ slot' = [slot EXCEPT ![q] = rest(@)]
          /\ taken' = IF e # None THEN [taken EXCEPT ![q] = Append(@, e)] ELSE taken
          /\ inputs' = [inputs EXCEPT ![s] =
                          IF inputs[s].j < Len(wiring[s].latest)
                          THEN [@ EXCEPT !.j = @ + 1, !.snaps = snaps]
                          ELSE AfterLatest(s, snaps)]
          /\ IF /\ inputs[s].j = Len(wiring[s].latest)
                /\ snaps # <<>>
                /\ run[s].pc = "select"
             THEN \E o \in PanicOutcomes(s) :
                     /\ aborted' = (o = "abort")
                     /\ run' = [run EXCEPT ![s].pc = "panicked"]
             ELSE UNCHANGED << aborted, run >>
    /\ UNCHANGED << shutdown, done, uuid, handled, config, next_ingest_seq,
                    unrouted_publish_total, drops_total, buf, inbox, out, drain,
                    permit, pub, calls, attempts, pushAfterRead, evicted, waited >>

\* faulty variant: the round-robin cursor does not move
advance_stuck(i, k) == i

\* self.fifo_index = (self.fifo_index + 1) % self.fifos.len()
advance(i, k) == (i + 1) % k

\* faulty variant: the lap ends at the first input, wherever it started
lap_done_at_first(nxt, start) == nxt = 0

\* if self.fifo_index == start { break; }
lap_done(nxt, start) == nxt = start

\* the queues of the FIFO-class inputs of subscriber s
FifoClass(s) == {wiring[s].fifos[i].queue : i \in 1..Len(wiring[s].fifos)}

\* the items of FIFO-class queue q that try_recv can reach
Pending(q) == IF q \in Fifos THEN buf[q] ELSE out[q]

\* one step of the scan of the FIFO-class inputs; an item found is returned
\* by next(), and a run-loop passes it to its handler
FifoRecv(s) ==
    /\ ~aborted
    /\ s \in Subscribers
    /\ Polls(s)
    /\ inputs[s].pc = "fifo"
    /\ LET i    == inputs[s].fifo_index
           nxt  == advance(i, Len(wiring[s].fifos))
           fifo == wiring[s].fifos[i + 1]
           q    == fifo.queue
           item == IF fifo.receiver = "FifoDropOldest"
                   THEN pop_front(buf[q]) ELSE pop_front(out[q])
       IN /\ buf' = IF fifo.receiver = "FifoDropOldest"
                    THEN [buf EXCEPT ![q] = rest(@)] ELSE buf
          /\ out' = IF fifo.receiver = "Isolated"
                    THEN [out EXCEPT ![q] = rest(@)] ELSE out
          /\ taken' = IF item # None THEN [taken EXCEPT ![q] = Append(@, item)]
                      ELSE taken
          /\ inputs' = [inputs EXCEPT ![s] =
                          IF item # None
                          THEN [@ EXCEPT !.pc = "idle", !.fifo_index = nxt]
                          ELSE IF lap_done(nxt, inputs[s].start)
                          THEN [@ EXCEPT !.pc = "wait", !.fifo_index = nxt]
                          ELSE [@ EXCEPT !.fifo_index = nxt]]
          /\ waited' = IF item = None THEN waited
                        ELSE [x \in DOMAIN waited |->
                                IF x \notin FifoClass(s) THEN waited[x]
                                ELSE IF x # q /\ Pending(x) # <<>>
                                THEN waited[x] + 1 ELSE 0]
          /\ run' = IF item # None /\ run[s].pc = "select"
                     THEN [run EXCEPT ![s] = [pc |-> "handle", parent |-> item]]
                     ELSE run
    /\ UNCHANGED << shutdown, done, uuid, handled, config, next_ingest_seq,
                    unrouted_publish_total, drops_total, slot, inbox, drain,
                    permit, pub, aborted, calls, attempts, pushAfterRead,
                    evicted >>

\* notify_any.notified().await returns: the permit is consumed
Wake(s) ==
    /\ ~aborted
    /\ s \in Subscribers
    /\ Polls(s)
    /\ inputs[s].pc = "wait"
    /\ permit[s]
    /\ permit' = [permit EXCEPT ![s] = FALSE]
    /\ inputs' = [inputs EXCEPT ![s] = LoopTop(s)]
    /\ UNCHANGED << workers, config, next_ingest_seq, unrouted_publish_total, drops_total,
                    buf, slot, inbox, out, drain, pub, aborted, history >>

\* ------------------------------------------------------------- Worker::run
\* Uuid::new_v4(): the id handed out after n earlier ones, different from
\* every earlier one
new_v4(n) == n

\* an event without parents, made by the task that starts a job
SourceEvent(event_type, id) ==
    [event_id |-> id, parents |-> <<>>, event_type |-> event_type, stage |-> ""]

\* faulty variant: the failure names no parent
PipelineFailed_orphan(event, subscriber_id) ==
    [event_id |-> event.event_id, parents |-> <<>>,
     event_type |-> "pipeline.failed", stage |-> subscriber_id]

\* PipelineFailed::new(event, subscriber_id, message)
PipelineFailed(event, subscriber_id) ==
    [event_id |-> event.event_id, parents |-> << event.event_id >>,
     event_type |-> "pipeline.failed", stage |-> subscriber_id]

\* EnrichedEvent { event, session_id, ingest_ns, .. } around an event with
\* identity and lineage
Enrich(event, ingest_ns) ==
    [event_type |-> event.event_type, ingest_ns |-> ingest_ns,
     session_id |-> session_id, event |-> event]

\* the record of a publish call in calls
Call(p, event, ingest_ns, end) ==
    [by |-> p, event_type |-> event.event_type, ingest_ns |-> ingest_ns,
     end |-> end, event |-> event]

\* EventBus::publish(event) called by task p, up to the route lookup
Publish(p, event) ==
    /\ next_ingest_seq' = fetch_add(next_ingest_seq)
    /\ table' = get(table, event.event_type).table
    /\ IF event.event_type \in DOMAIN table
       THEN /\ pub' = [pub EXCEPT ![p] =
                         [pc |-> "deliver",
                          enriched_event |-> Enrich(event, next_ingest_seq),
                          i |-> 1]]
            /\ calls' = Append(calls, Call(p, event, next_ingest_seq, "running"))
            /\ UNCHANGED << unrouted_publish_total, aborted >>
       ELSE /\ unrouted_publish_total' = record_unrouted(unrouted_publish_total)
            /\ IF strict_routing
               THEN /\ calls' = Append(calls, Call(p, event, next_ingest_seq, "panicked"))
                    /\ \E o \in PanicOutcomes(p) :
                          /\ aborted' = (o = "abort")
                          /\ pub' = [pub EXCEPT ![p].pc = "panicked"]
               ELSE /\ calls' = Append(calls, Call(p, event, next_ingest_seq, "returned"))
                    /\ UNCHANGED << pub, aborted >>

\* a task that is not a worker publishes a new event of type et
Emit(p, et, limit) ==
    /\ ~aborted
    /\ pub[p].pc = "idle"
    /\ uuid < limit
    /\ Publish(p, SourceEvent(et, new_v4(uuid)))
    /\ uuid' = uuid + 1
    /\ UNCHANGED << fixed, drops_total, buf, slot, inbox, out, drain, permit,
                    inputs, attempts, taken, pushAfterRead, evicted, waited,
                    run, shutdown, done, handled >>

\* the record of a handler invocation in handled
Handled(event, result) == [event |-> event, result |-> result]

\* self.handle(event, &bus) returns Ok(()); the loop goes back to select!
HandleOk(w) ==
    /\ ~aborted
    /\ w \in Subscribers
    /\ run[w].pc = "handle"
    /\ run' = [run EXCEPT ![w] = AtSelect]
    /\ handled' = [handled EXCEPT ![w] = Append(@, Handled(run[w].parent, "Ok"))]
    /\ UNCHANGED << config, next_ingest_seq, unrouted_publish_total, drops_total,
                    buf, slot, inbox, out, drain, permit, pub, aborted, inputs,
                    history, shutdown, done, uuid >>

\* faulty variant: the error of the handler is propagated with ? and ends
\* the run-loop
after_error_propagate(r, panicked) == [r EXCEPT !.pc = "returned"]

\* where the run-loop r is after the Err branch: back at select!, unless
\* publish panicked
after_error(r, panicked) ==
    IF panicked THEN [r EXCEPT !.pc = "panicked"] ELSE AtSelect

\* self.handle(event, &bus) returns Err(e); the loop publishes
\* PipelineFailed::new(parent.event, SUBSCRIBER_ID, ..) and, if publish
\* does not panic, goes back to select!
HandleErr(w) ==
    /\ ~aborted
    /\ w \in Subscribers
    /\ run[w].pc = "handle"
    /\ Publish(w, PipelineFailed(run[w].parent.event, w))
    /\ run' = [run EXCEPT ![w] =
                  after_error(@, aborted' \/ pub'[w].pc = "panicked")]
    /\ handled' = [handled EXCEPT ![w] = Append(@, Handled(run[w].parent, "Err"))]
    /\ UNCHANGED << fixed, drops_total, buf, slot, inbox, out, drain, permit,
                    inputs, attempts, taken, pushAfterRead, evicted, waited,
                    shutdown, done, uuid >>

\* faulty variant: the message goes to whichever receiver reads it first
recv_first_come(ready, w) == [s \in DOMAIN ready |-> FALSE]

\* broadcast::Receiver::recv of the receiver of w returns: its own copy of
\* the message is consumed
recv(ready, w) == [ready EXCEPT ![w] = FALSE]

\* shutdown_tx.send(()): every receiver has a message to read
ShutdownSend ==
    /\ ~aborted
    /\ shutdown.sent < MaxShutdown
    /\ shutdown' = [sent |-> shutdown.sent + 1,
                    ready |-> [s \in DOMAIN shutdown.ready |-> TRUE]]
    /\ UNCHANGED << config, next_ingest_seq, unrouted_publish_total, drops_total,
                    buf, slot, inbox, out, drain, permit, pub, aborted, inputs,
                    history, run, done, uuid, handled >>

\* select! takes the branch of shutdown.recv(): the run-loop returns Ok(())
\* and the pending next() is dropped
ShutdownRecv(w) ==
    /\ ~aborted
    /\ w \in Subscribers
    /\ run[w].pc = "select"
    /\ pub[w].pc = "idle"
    /\ inputs[w].pc \in {"idle", "wait"}
    /\ shutdown.ready[w]
    /\ shutdown' = [shutdown EXCEPT !.ready = recv(@, w)]
    /\ run' = [run EXCEPT ![w].pc = "returned"]
    /\ inputs' = [inputs EXCEPT ![w].pc = "idle"]
    /\ UNCHANGED << config, next_ingest_seq, unrouted_publish_total, drops_total,
                    buf, slot, inbox, out, drain, permit, pub, aborted, history,
                    done, uuid, handled >>

\* --------------------------------------------------------- specifications
Init == InitWith(BusSubs, FALSE)

InitStrict == InitWith(BusSubs, TRUE)

\* the bus built with strict routing disabled; subscriber "s1" reads its
\* bounded FIFO and its latest slot, the subscriber of the isolated forwarder
\* is paused
Next ==
    \/ \E p \in Publishers, et \in EventTypes : PublishRouted(p, et, MaxPublish)
    \/ \E p \in Publishers, et \in EventTypes : PublishUnrouted(p, et, MaxPublish)
    \/ \E p \in Publishers : Deliver(p)
    \/ \E q \in QueueIds : DrainRecv(q)
    \/ \E q \in QueueIds : DrainSend(q)
    \/ NextCall("s1")
    \/ LatestRecv("s1")
    \/ FifoRecv("s1")
    \/ Wake("s1")

Spec == Init /\ [][Next]_vars

\* the bus built with strict routing enabled
NextStrict ==
    \/ \E p \in Publishers, et \in EventTypes : PublishRouted(p, et, MaxPublish)
    \/ \E p \in Publishers, et \in EventTypes : PublishPanic(p, et, MaxPublish)
    \/ \E p \in Publishers : Deliver(p)
    \/ \E q \in QueueIds : DrainRecv(q)
    \/ \E q \in QueueIds : DrainSend(q)
    \/ NextCall("s1")
    \/ LatestRecv("s1")
    \/ FifoRecv("s1")
    \/ Wake("s1")

SpecStrict == InitStrict /\ [][NextStrict]_vars

\* one task publishing a burst of events to an isolated forwarder, a
\* bounded FIFO of capacity 1 and a latest slot that no subscriber reads
InitIso == InitWith(IsoSubs, FALSE)

NextIso ==
    \/ PublishRouted("main", "A", MaxPublishIso)
    \/ PublishRouted("main", "B", MaxOtherIso)
    \/ Deliver("main")
    \/ \E q \in QueueIds : DrainRecv(q)
    \/ \E q \in QueueIds : DrainSend(q)

SpecIso == InitIso /\ [][NextIso]_vars

\* the publishing task runs the synchronous body of publish() to its end;
\* nothing is assumed about the drain task
SpecIsoFair == SpecIso /\ WF_vars(Deliver("main"))

\* the bus of IsoSubs with the subscriber of the isolated forwarder calling
\* next() at any moment, or never
NextIsoRead ==
    \/ PublishRouted("main", "A", MaxPublishIso)
    \/ Deliver("main")
    \/ \E q \in QueueIds : DrainRecv(q)
    \/ \E q \in QueueIds : DrainSend(q)
    \/ NextCall("s2")
    \/ FifoRecv("s2")
    \/ Wake("s2")

SpecIsoRead == InitIso /\ [][NextIsoRead]_vars

\* the owner of the inputs of subscriber s, which runs no run-loop, drops
\* them between two calls of next() or while one is waiting
DropInputs(s) ==
    /\ ~aborted
    /\ run[s].pc = "absent"
    /\ inputs[s].pc \in {"idle", "wait"}
    /\ run' = [run EXCEPT ![s].pc = "returned"]
    /\ inputs' = [inputs EXCEPT ![s].pc = "idle"]
    /\ UNCHANGED << config, next_ingest_seq, unrouted_publish_total, drops_total,
                    buf, slot, inbox, out, drain, permit, pub, aborted, history,
                    shutdown, done, uuid, handled >>

\* the bus of IsoSubs with its two handles dropped at any moment, the
\* subscriber of the isolated forwarder reading and going away at any
\* moment, and the drain task running to its end
NextDrain ==
    \/ PublishRouted("main", "A", MaxPublishDrain)
    \/ Deliver("main")
    \/ \E q \in QueueIds : DrainRecv(q)
    \/ \E q \in QueueIds : DrainSend(q)
    \/ \E q \in QueueIds : DrainSendErr(q)
    \/ \E q \in QueueIds : DrainClosed(q)
    \/ \E p \in Publishers : DropBus(p)
    \/ NextCall("s2")
    \/ FifoRecv("s2")
    \/ Wake("s2")
    \/ DropInputs("s2")

SpecDrain == InitIso /\ [][NextDrain]_vars

\* two workers with one bounded FIFO each, "w1" for "A" and "w2" for "B";
\* "pipeline.failed" has no subscription
WorkerSubs ==
    << SubscriptionSpec("w1", << InputSpec("A", FifoDropOldest(FifoCapacity)) >>),
       SubscriptionSpec("w2", << InputSpec("B", FifoDropOldest(FifoCapacity)) >>) >>

\* the identities declared in WorkerSubs
Workers == {"w1", "w2"}

InitRun == InitWorkers(WorkerSubs, FALSE, {"main"})

\* a source task publishes "A" and "B" events to the two run-loops and
\* broadcasts the shutdown
NextRun ==
    \/ \E et \in {"A", "B"} : Emit("main", et, MaxEmit)
    \/ \E p \in {"main"} \cup Workers : Deliver(p)
    \/ \E w \in Workers : NextCall(w)
    \/ \E w \in Workers : FifoRecv(w)
    \/ \E w \in Workers : Wake(w)
    \/ \E w \in Workers : HandleOk(w)
    \/ \E w \in Workers : HandleErr(w)
    \/ ShutdownSend
    \/ \E w \in Workers : ShutdownRecv(w)

SpecRun == InitRun /\ [][NextRun]_vars

\* the task of worker w is scheduled: its multiplexer and its handler make
\* progress and a publish it started runs to its end
FairSteps(w) ==
    /\ WF_vars(NextCall(w))
    /\ WF_vars(FifoRecv(w))
    /\ WF_vars(Wake(w))
    /\ WF_vars(HandleOk(w) \/ HandleErr(w))
    /\ WF_vars(Deliver(w))

\* the task of worker w is scheduled and select!, which polls its branches
\* in random order, does not ignore a ready shutdown forever
FairRun(w) == FairSteps(w) /\ SF_vars(ShutdownRecv(w))

\* only worker "w1" and the publish calls of the source are required to
\* make progress; nothing is assumed about worker "w2"
SpecRunFair == SpecRun /\ FairRun("w1") /\ WF_vars(Deliver("main"))

\* worker "w1" as before and "w2" subscribed to PipelineFailed
SinkSubs ==
    << SubscriptionSpec("w1", << InputSpec("A", FifoDropOldest(FifoCapacity)) >>),
       SubscriptionSpec("w2", << InputSpec("pipeline.failed",
                                           FifoDropOldest(FifoCapacity)) >>) >>

\* a bus built with either setting of strict routing, with and without a
\* subscription for PipelineFailed
InitRunAny ==
    \E strict \in BOOLEAN, ss \in {WorkerSubs, SinkSubs} :
        InitWorkers(ss, strict, {"main"})

\* a source task publishes "A" events to the run-loop of "w1" and broadcasts
\* the shutdown; the task of "w2" is not scheduled
NextRunAny ==
    \/ Emit("main", "A", MaxEmit)
    \/ \E p \in {"main", "w1"} : Deliver(p)
    \/ NextCall("w1")
    \/ FifoRecv("w1")
    \/ Wake("w1")
    \/ HandleOk("w1")
    \/ HandleErr("w1")
    \/ ShutdownSend
    \/ ShutdownRecv("w1")

SpecRunAny == InitRunAny /\ [][NextRunAny]_vars

SpecRunAnyFair == SpecRunAny /\ FairSteps("w1") /\ WF_vars(Deliver("main"))

\* one subscriber with three FIFO-class inputs and no latest slot
MuxSubs ==
    << SubscriptionSpec("s1", << InputSpec("A", FifoDropOldest(FifoCapacity)),
                                 InputSpec("B", Isolated(OutputBuffer)),
                                 InputSpec("C", FifoDropOldest(FifoCapacity)) >>) >>

InitMux == InitWith(MuxSubs, FALSE)

\* one task publishes events of the three types ("C" only in its first
\* MaxOtherIso calls) while the subscriber calls next() again and again
NextMux ==
    \/ \E et \in {"A", "B"} : PublishRouted("main", et, MaxPublishMux)
    \/ PublishRouted("main", "C", MaxOtherIso)
    \/ Deliver("main")
    \/ \E q \in QueueIds : DrainRecv(q)
    \/ \E q \in QueueIds : DrainSend(q)
    \/ NextCall("s1")
    \/ FifoRecv("s1")
    \/ Wake("s1")

SpecMux == InitMux /\ [][NextMux]_vars

\* one subscriber with an input of each policy, which calls next() again
\* and again while one task publishes events of the three types
WakeSubs ==
    << SubscriptionSpec("s1", << InputSpec("A", FifoDropOldest(FifoCapacity)),
                                 InputSpec("B", Latest1),
                                 InputSpec("C", Isolated(OutputBuffer)) >>) >>

InitWake == InitWith(WakeSubs, FALSE)

NextWake ==
    \/ \E et \in EventTypes : PublishRouted("main", et, MaxPublishWake)
    \/ Deliver("main")
    \/ \E q \in QueueIds : DrainRecv(q)
    \/ \E q \in QueueIds : DrainSend(q)
    \/ NextCall("s1")
    \/ LatestRecv("s1")
    \/ FifoRecv("s1")
    \/ Wake("s1")

SpecWake == InitWake /\ [][NextWake]_vars

\* the task of the subscriber is scheduled and calls next() again after
\* every return, the drain task is scheduled, and the publish call that was
\* started runs to its end
FairWake ==
    /\ WF_vars(NextCall("s1") \/ LatestRecv("s1") \/ FifoRecv("s1") \/ Wake("s1"))
    /\ WF_vars(\E q \in QueueIds : DrainRecv(q) \/ DrainSend(q))
    /\ WF_vars(Deliver("main"))

SpecWakeFair == SpecWake /\ FairWake

\* the bus of BusSubs with both subscribers calling next() again and again
\* while one task publishes
NextBoth ==
    \/ \E et \in {"A", "B"} : PublishRouted("main", et, MaxPublish)
    \/ Deliver("main")
    \/ \E q \in QueueIds : DrainRecv(q)
    \/ \E q \in QueueIds : DrainSend(q)
    \/ \E s \in SubscriberIds : NextCall(s)
    \/ LatestRecv("s1")
    \/ \E s \in SubscriberIds : FifoRecv(s)
    \/ \E s \in SubscriberIds : Wake(s)

SpecBoth == Init /\ [][NextBoth]_vars

\* one subscriber with two latest-slot inputs ahead of a bounded FIFO
SnapSubs ==
    << SubscriptionSpec("s1", << InputSpec("A", Latest1),
                                 InputSpec("B", Latest1),
                                 InputSpec("C", FifoDropOldest(FifoCapacity)) >>) >>

InitSnap == InitWith(SnapSubs, FALSE)

\* one task publishes events of the three types while the subscriber calls
\* next() again and again
NextSnap ==
    \/ \E et \in EventTypes : PublishRouted("main", et, MaxPublishWake)
    \/ Deliver("main")
    \/ NextCall("s1")
    \/ LatestRecv("s1")
    \/ FifoRecv("s1")
    \/ Wake("s1")

SpecSnap == InitSnap /\ [][NextSnap]_vars

\* what a caller of the builder can declare: an identity that is empty,
\* blank or set, up to two inputs of any kind with capacities zero or set,
\* and an optional second subscription
DeclKinds ==
    {Latest1} \cup {FifoDropOldest(c) : c \in {0, FifoCapacity}}
              \cup {BoundedDropNewest(c) : c \in {0, FifoCapacity}}
              \cup {Isolated(c) : c \in {0, OutputBuffer}}

DeclInputs ==
    {InputSpec(et, k) : et \in {"A", "B"}, k \in DeclKinds}
        \cup {InputSpec("", Latest1)}

DeclFirst ==
    {SubscriptionSpec(id, ins) :
        id \in {"", " ", "s1"},
        ins \in {<<>>} \cup {<< a >> : a \in DeclInputs}
                       \cup {<< a, b >> : a \in DeclInputs, b \in DeclInputs}}

DeclSecond ==
    {SubscriptionSpec(id, ins) :
        id \in {"", "s1", "s2"},
        ins \in {<<>>, << InputSpec("A", FifoDropOldest(FifoCapacity)) >>,
                 << InputSpec("A", Isolated(0)) >>}}

Decls ==
    {<< a >> : a \in DeclFirst} \cup {<< a, b >> : a \in DeclFirst, b \in DeclSecond}

\* the identities a caller asks the wiring for; "zz" is never declared
TakeIds == {"s1", "s2", "zz"}

InitBuild == \E ss \in Decls : Unbuilt(ss)

NextBuild ==
    \/ Build
    \/ \E id \in TakeIds : Take(id)

SpecBuild == InitBuild /\ [][NextBuild]_vars

\* ------------------------------------------------------------ CLI pipeline
\* the subscriptions start_pipeline hands to the builder, in its order
\* faulty variant: the sink does not subscribe to PipelineFailed
CliSubs_report_only ==
    << SubscriptionSpec("youtube.download",
           << InputSpec("youtube.url_requested", FifoDropOldest(CliCapacity)) >>),
       SubscriptionSpec("youtube.extract_audio",
           << InputSpec("youtube.video_downloaded", FifoDropOldest(CliCapacity)) >>),
       SubscriptionSpec("transcribe.audio",
           << InputSpec("youtube.audio_extracted", FifoDropOldest(CliCapacity)) >>),
       SubscriptionSpec("analyze.sections",
           << InputSpec("audio.transcribed", FifoDropOldest(CliCapacity)) >>),
       SubscriptionSpec("compile.report",
           << InputSpec("sections.analyzed", FifoDropOldest(CliCapacity)) >>),
       SubscriptionSpec("cli.completion_sink",
           << InputSpec("report.compiled", Isolated(CliOutputBuffer)) >>) >>

CliSubs ==
    << SubscriptionSpec("youtube.download",
           << InputSpec("youtube.url_requested", FifoDropOldest(CliCapacity)) >>),
       SubscriptionSpec("youtube.extract_audio",
           << InputSpec("youtube.video_downloaded", FifoDropOldest(CliCapacity)) >>),
       SubscriptionSpec("transcribe.audio",
           << InputSpec("youtube.audio_extracted", FifoDropOldest(CliCapacity)) >>),
       SubscriptionSpec("analyze.sections",
           << InputSpec("audio.transcribed", FifoDropOldest(CliCapacity)) >>),
       SubscriptionSpec("compile.report",
           << InputSpec("sections.analyzed", FifoDropOldest(CliCapacity)) >>),
       SubscriptionSpec("cli.completion_sink",
           << InputSpec("report.compiled", Isolated(CliOutputBuffer)),
              InputSpec("pipeline.failed", FifoDropOldest(CliCapacity)) >>) >>

Sink == "cli.completion_sink"
SinkDrain == << Sink, "report.compiled" >>

\* the oneshot sender held by the sink as Some(done_tx), nothing sent
SinkChannel == [sender |-> Sink, result |-> None]

\* start_pipeline has returned: the bus is built (every tag published here
\* has a route, so strict routing makes no difference), the drain task and
\* the six run-loops are spawned, the sink holds the sender of the
\* completion channel
InitCli ==
    /\ Built(CliSubs, FALSE)
    /\ pub = [p \in {"main"} \cup DOMAIN BuildWiring(CliSubs) |-> IdlePublish]
    /\ run = [s \in DOMAIN BuildWiring(CliSubs) |-> AtSelect]
    /\ shutdown = [sent |-> 0,
                   ready |-> [s \in DOMAIN BuildWiring(CliSubs) |-> FALSE]]
    /\ done = SinkChannel

\* faulty variant: only a compiled report completes the pipeline
completion_report_only(d, event) ==
    IF d.sender = Sink /\ event.event_type = "report.compiled"
    THEN [sender |-> "none", result |-> [Ok |-> event]]
    ELSE d

\* faulty variant: the sender is not taken, every completion event is sent
completion_resend(d, event) ==
    IF event.event_type = "report.compiled"
    THEN [sender |-> "none", result |-> [Ok |-> event]]
    ELSE IF event.event_type = "pipeline.failed"
    THEN [sender |-> "none", result |-> [Err |-> event]]
    ELSE d

\* the completion channel after the sink has handled event: self.done.take()
\* gives the sender once, and done.send(Ok(report)) or done.send(Err(failure))
\* consumes it
completion(d, event) ==
    IF d.sender = Sink /\ event.event_type = "report.compiled"
    THEN [sender |-> "none", result |-> [Ok |-> event]]
    ELSE IF d.sender = Sink /\ event.event_type = "pipeline.failed"
    THEN [sender |-> "none", result |-> [Err |-> event]]
    ELSE d

\* CliCompletionSinkWorker::handle: always returns Ok(())
SinkHandle ==
    /\ ~aborted
    /\ run[Sink].pc = "handle"
    /\ done' = completion(done, run[Sink].parent.event)
    /\ run' = [run EXCEPT ![Sink] = AtSelect]
    /\ handled' = [handled EXCEPT ![Sink] = Append(@, Handled(run[Sink].parent, "Ok"))]
    /\ UNCHANGED << config, next_ingest_seq, unrouted_publish_total, drops_total,
                    buf, slot, inbox, out, drain, permit, pub, aborted, inputs,
                    history, shutdown, uuid >>

\* the stage whose run-loop is followed step by step, on jobs whose download
\* fails; the later stages stay at their select! and are seen through the
\* publish of ReportCompiled made by the task of the last of them; the
\* shutdown is not broadcast
CliStages == {"youtube.download"}
CliWorkers == CliStages \cup {Sink}

NextCli ==
    \/ Emit("main", "youtube.url_requested", MaxEmit)
    \/ Emit("compile.report", "report.compiled", MaxEmit)
    \/ \E p \in {"main", "compile.report"} \cup CliWorkers : Deliver(p)
    \/ DrainRecv(SinkDrain)
    \/ DrainSend(SinkDrain)
    \/ \E w \in CliWorkers : NextCall(w)
    \/ \E w \in CliWorkers : FifoRecv(w)
    \/ \E w \in CliWorkers : Wake(w)
    \/ \E w \in CliStages : HandleErr(w)
    \/ SinkHandle

SpecCli == InitCli /\ [][NextCli]_vars

\* the scheduler does not leave both the run-loop of the sink and the
\* publish call started by the download stage waiting forever; this is
\* implied by running each of the two tasks
FairCli ==
    WF_vars(\/ NextCall(Sink) \/ FifoRecv(Sink) \/ Wake(Sink) \/ SinkHandle
            \/ Deliver("youtube.download"))

SpecCliFair == SpecCli /\ FairCli

\* ----------------------------------------------------- the stage handlers
\* the event a stage publishes for the next one: Uuid::new_v4() as its id and
\* the id of the event it handled as its single parent
StageEvent(event_type, id, parent_event_id) ==
    [event_id |-> id, parents |-> << parent_event_id >>,
     event_type |-> event_type, stage |-> ""]

Extract == "youtube.extract_audio"

\* ExtractAudioWorker::handle: when ffmpeg fails the handler publishes
\* PipelineFailed itself and returns Ok(()); otherwise it publishes
\* YoutubeAudioExtracted and returns Ok(())
ExtractHandle(o) ==
    /\ ~aborted
    /\ run[Extract].pc = "handle"
    /\ Publish(Extract,
               IF o = "failed"
               THEN PipelineFailed(run[Extract].parent.event, Extract)
               ELSE StageEvent("youtube.audio_extracted", new_v4(uuid),
                               run[Extract].parent.event.event_id))
    /\ uuid' = IF o = "failed" THEN uuid ELSE uuid + 1
    /\ run' = [run EXCEPT ![Extract] =
                  after_error(@, aborted' \/ pub'[Extract].pc = "panicked")]
    /\ handled' = [handled EXCEPT ![Extract] =
                      Append(@, Handled(run[Extract].parent, "Ok"))]
    /\ UNCHANGED << fixed, drops_total, buf, slot, inbox, out, drain, permit,
                    inputs, attempts, taken, pushAfterRead, evicted, waited,
                    shutdown, done >>

\* the CLI pipeline seen at the audio stage: the task of the download stage
\* publishes downloaded videos, the run-loop of the audio stage and that of
\* the sink are followed step by step
NextExtract ==
    \/ Emit("youtube.download", "youtube.video_downloaded", MaxEmit)
    \/ \E p \in {"youtube.download", Extract} : Deliver(p)
    \/ \E w \in {Extract, Sink} : NextCall(w)
    \/ \E w \in {Extract, Sink} : FifoRecv(w)
    \/ \E w \in {Extract, Sink} : Wake(w)
    \/ \E o \in {"extracted", "failed"} : ExtractHandle(o)
    \/ SinkHandle

SpecExtract == InitCli /\ [][NextExtract]_vars

Compile == "compile.report"

\* the stages whose handler publishes its output and returns Ok(()), with
\* the tag of the event each one publishes
StageOutput ==
    [w \in {"youtube.download", "transcribe.audio", "analyze.sections"} |->
        CASE w = "youtube.download" -> "youtube.video_downloaded"
          [] w = "transcribe.audio" -> "audio.transcribed"
          [] w = "analyze.sections" -> "sections.analyzed"]

\* DownloadVideoWorker::handle, TranscribeAudioWorker::handle and
\* AnalyzeSectionsWorker::handle when their work succeeds: publish the
\* output event with the handled event as parent, return Ok(())
StageHandle(w) ==
    /\ ~aborted
    /\ w \in DOMAIN StageOutput
    /\ run[w].pc = "handle"
    /\ Publish(w, StageEvent(StageOutput[w], new_v4(uuid),
                             run[w].parent.event.event_id))
    /\ uuid' = uuid + 1
    /\ run' = [run EXCEPT ![w] =
                  after_error(@, aborted' \/ pub'[w].pc = "panicked")]
    /\ handled' = [handled EXCEPT ![w] = Append(@, Handled(run[w].parent, "Ok"))]
    /\ UNCHANGED << fixed, drops_total, buf, slot, inbox, out, drain, permit,
                    inputs, attempts, taken, pushAfterRead, evicted, waited,
                    shutdown, done >>

\* CompileReportWorker::handle when compile_report succeeds: publish
\* ReportCompiled; the handler is then at the todo!() that ends its body
CompileHandle ==
    /\ ~aborted
    /\ run[Compile].pc = "handle"
    /\ Publish(Compile, StageEvent("report.compiled", new_v4(uuid),
                                   run[Compile].parent.event.event_id))
    /\ uuid' = uuid + 1
    /\ run' = [run EXCEPT ![Compile].pc =
                  IF aborted' \/ pub'[Compile].pc = "panicked"
                  THEN "panicked" ELSE "todo"]
    /\ UNCHANGED << fixed, drops_total, buf, slot, inbox, out, drain, permit,
                    inputs, attempts, taken, pushAfterRead, evicted, waited,
                    shutdown, done, handled >>

\* the todo!() reached once publish has returned: the handler panics; the
\* panic ends the task of the worker, or the process where panics abort
CompileTodo ==
    /\ ~aborted
    /\ run[Compile].pc = "todo"
    /\ pub[Compile].pc = "idle"
    /\ \E o \in PanicOutcomes(Compile) : aborted' = (o = "abort")
    /\ run' = [run EXCEPT ![Compile].pc = "panicked"]
    /\ UNCHANGED << config, next_ingest_seq, unrouted_publish_total, drops_total,
                    buf, slot, inbox, out, drain, permit, pub, inputs, history,
                    shutdown, done, uuid, handled >>

\* the five stages ahead of the sink
Stages == DOMAIN StageOutput \cup {Extract, Compile}

\* the caller of start_pipeline publishes the request of one job on the bus
\* of the handle it got
Submit ==
    /\ calls = <<>>
    /\ Emit("main", "youtube.url_requested", MaxEmit)

\* what the tasks of the pipeline do on a job whose handlers all return
\* Ok(()): each stage publishes its output, or, in the extract stage, the
\* failure of ffmpeg
NextTasks ==
    \/ \E p \in {"main"} \cup Stages : Deliver(p)
    \/ DrainRecv(SinkDrain)
    \/ DrainSend(SinkDrain)
    \/ \E w \in Stages \cup {Sink} : NextCall(w)
    \/ \E w \in Stages \cup {Sink} : FifoRecv(w)
    \/ \E w \in Stages \cup {Sink} : Wake(w)
    \/ \E w \in DOMAIN StageOutput : StageHandle(w)
    \/ \E o \in {"extracted", "failed"} : ExtractHandle(o)
    \/ CompileHandle
    \/ CompileTodo
    \/ SinkHandle

\* start_pipeline has returned on a configuration with strict routing
InitJob ==
    /\ Built(CliSubs, TRUE)
    /\ pub = [p \in {"main"} \cup DOMAIN BuildWiring(CliSubs) |-> IdlePublish]
    /\ run = [s \in DOMAIN BuildWiring(CliSubs) |-> AtSelect]
    /\ shutdown = [sent |-> 0,
                   ready |-> [s \in DOMAIN BuildWiring(CliSubs) |-> FALSE]]
    /\ done = SinkChannel

SpecJob == InitJob /\ [][Submit \/ NextTasks]_vars

\* the tags each task of the pipeline publishes: the caller the request,
\* each stage its output and, through its run-loop (the extract stage also
\* through its handler), PipelineFailed; the sink publishes nothing
Publishes ==
    [p \in {"main"} \cup Stages |->
        CASE p = "main" -> {"youtube.url_requested"}
          [] p \in DOMAIN StageOutput -> {StageOutput[p], "pipeline.failed"}
          [] p = Extract -> {"youtube.audio_extracted", "pipeline.failed"}
          [] p = Compile -> {"report.compiled", "pipeline.failed"}]

\* the tasks publish what they can publish, in any order
NextTags ==
    \/ \E p \in DOMAIN Publishes : \E et \in Publishes[p] : Emit(p, et, MaxEmit)
    \/ \E p \in DOMAIN Publishes : Deliver(p)

SpecTags == InitJob /\ [][NextTags]_vars


\* ------------------------------------------------------- start_pipeline
\* a worker that start_pipeline has not spawned yet
Unspawned == [pc |-> "unspawned", parent |-> None]

\* the caller is inside start_pipeline, before builder.build()
AtBuild == [pc |-> "build", enriched_event |-> None, i |-> 0]

\* the caller is inside start_pipeline, past builder.build()
AtStart == [pc |-> "start", enriched_event |-> None, i |-> 0]

\* start_pipeline is entered: nothing is built, no task is spawned, the
\* sender of the completion channel is set aside for the sink
InitStart ==
    /\ NoBus(CliSubs)
    /\ pub = [p \in {"main"} \cup DOMAIN BuildWiring(CliSubs) |->
                IF p = "main" THEN AtBuild ELSE IdlePublish]
    /\ run = [s \in DOMAIN BuildWiring(CliSubs) |-> Unspawned]
    /\ shutdown = [sent |-> 0,
                   ready |-> [s \in DOMAIN BuildWiring(CliSubs) |-> FALSE]]
    /\ done = SinkChannel

\* let (bus, mut wiring, tasks) = builder.build()?
StartBuild ==
    /\ pub["main"].pc = "build"
    /\ Construct
    /\ pub' = [pub EXCEPT !["main"] = AtStart]

\* the drain tasks returned by build that are not spawned
NotStarted == {q \in DOMAIN drain : drain[q].pc = "created"}

\* the workers that are not spawned
NotSpawned == {s \in DOMAIN run : run[s].pc = "unspawned"}

\* the place of subscriber s in the declaration
PlaceOfSub(s) == CHOOSE p \in 1..Len(decl) : decl[p].subscriber_id = s

\* the place of queue q among the declared inputs
PlaceOfQueue(q) ==
    CHOOSE n \in 1..Len(FlatInputs(decl)) : QueueOf(FlatInputs(decl)[n]) = q

\* for t in tasks.tokio { tokio::spawn(t); }: one turn of the loop
SpawnDrain(q) ==
    /\ pub["main"].pc = "start"
    /\ built = "Ok"
    /\ q \in NotStarted
    /\ \A x \in NotStarted : PlaceOfQueue(q) <= PlaceOfQueue(x)
    /\ drain' = [drain EXCEPT ![q].pc = "recv"]
    /\ UNCHANGED << workers, config, next_ingest_seq, unrouted_publish_total,
                    drops_total, buf, slot, inbox, out, permit, pub, aborted,
                    inputs, history >>

\* faulty variant: the workers are spawned without regard to the drain tasks
may_spawn_worker_early(pending) == TRUE

\* the statements that spawn the workers follow the loop over tasks.tokio
may_spawn_worker(pending) == pending = {}

\* tokio::spawn(worker.run(wiring.take(SUBSCRIBER_ID).unwrap(), ..)): the
\* WorkerInputs of w moves into its run-loop, where wiring[w] stands for it
SpawnWorker(w) ==
    /\ pub["main"].pc = "start"
    /\ built = "Ok"
    /\ may_spawn_worker(NotStarted)
    /\ w \in NotSpawned
    /\ \A x \in NotSpawned : PlaceOfSub(w) <= PlaceOfSub(x)
    /\ run' = [run EXCEPT ![w] = AtSelect]
    /\ takes' = Append(takes, [subscriber_id |-> w, result |-> wiring[w]])
    /\ UNCHANGED << table, wiring, decl, strict_routing, session_id, built,
                    shutdown, done, uuid, handled, next_ingest_seq,
                    unrouted_publish_total, drops_total, buf, slot, inbox, out,
                    drain, permit, pub, aborted, inputs, history >>

\* Ok(PipelineHandle { bus, shutdown_tx, done_rx }): the caller holds the bus
StartReturn ==
    /\ pub["main"].pc = "start"
    /\ built = "Ok"
    /\ NotSpawned = {}
    /\ pub' = [pub EXCEPT !["main"] = IdlePublish]
    /\ UNCHANGED << workers, config, next_ingest_seq, unrouted_publish_total,
                    drops_total, buf, slot, inbox, out, drain, permit, aborted,
                    inputs, history >>

\* start_pipeline followed by the pipeline of NextCli; the task of the last
\* stage publishes only once it is spawned, a drain task exists only once
\* the bus is built
NextStart ==
    \/ StartBuild
    \/ SpawnDrain(SinkDrain)
    \/ \E w \in WorkerIds : SpawnWorker(w)
    \/ StartReturn
    \/ Emit("main", "youtube.url_requested", MaxEmit)
    \/ (run["compile.report"].pc = "select"
          /\ Emit("compile.report", "report.compiled", MaxEmit))
    \/ \E p \in {"main", "compile.report"} \cup CliWorkers : Deliver(p)
    \/ (built = "Ok" /\ DrainRecv(SinkDrain))
    \/ (built = "Ok" /\ DrainSend(SinkDrain))
    \/ \E w \in CliWorkers : NextCall(w)
    \/ \E w \in CliWorkers : FifoRecv(w)
    \/ \E w \in CliWorkers : Wake(w)
    \/ \E w \in CliStages : HandleErr(w)
    \/ SinkHandle

SpecStart == InitStart /\ [][NextStart]_vars

\* -------------------------------------------------------------- histories
\* the events delivery was tried for on queue q, in the order tried
Tried(q) == [i \in 1..Len(attempts[q]) |-> attempts[q][i].event]

\* the last k items of sequence s
LastK(s, k) == SubSeq(s, Len(s) - k + 1, Len(s))

Min(a, b) == IF a <= b THEN a ELSE b

\* the delivery sequence numbers of a sequence of events
Seqs(es) == [i \in 1..Len(es) |-> es[i].ingest_ns]

StrictlyIncreasing(ns) == \A i, j \in 1..Len(ns) : i < j => ns[i] < ns[j]

C2_LatestYieldsNth ==
    \A q \in Latests :
        (~pushAfterRead[q] /\ attempts[q] # <<>>) =>
            /\ taken[q] \o slot[q] = << Tried(q)[Len(attempts[q])] >>
            /\ taken[q] # <<>> => slot[q] = <<>>

\* C2 witness: two deliveries, one read that got the second, and a further
\* scan of the slot that found nothing (the subscriber is suspended again)
C2_Witness ==
    \E q \in Latests :
        /\ ~pushAfterRead[q]
        /\ Len(attempts[q]) >= 2
        /\ taken[q] = << Tried(q)[Len(attempts[q])] >>
        /\ inputs[OwnerOf(q)].pc = "wait"

\* C3: a publish of a routed event always returns, whatever the queues hold
\* and without any step of a subscriber or of a drain task: every publish
\* that is delivering reaches its return although only the publishing task
\* is required to take steps.
C3_PublishReturns ==
    \A p \in Publishers : (pub[p].pc = "deliver") ~> (pub[p].pc = "idle")

\* C3 witness: a publish has returned after the isolated forwarder rejected
\* its delivery: inbox and output channel full, drain task waiting for room
C3_Witness ==
    \E q \in Isolateds :
        /\ Len(inbox[q]) = InboxSize
        /\ Len(out[q]) = KindOfQueue(decl, q).output_buffer
        /\ drain[q].pc = "send"
        /\ drops_total[q] >= 1
        /\ pub["main"].pc = "idle"
        /\ calls[Len(calls)].end = "returned"

\* C4: every publish call takes exactly one delivery sequence number, no two
\* calls take the same one and the numbers increase strictly in the order
\* the calls take them; the event a call delivers carries its number.
C4_SeqUniqueIncreasing ==
    /\ StrictlyIncreasing(Seqs(calls))
    /\ \A p \in Publishers :
          pub[p].pc = "deliver" =>
              Cardinality({n \in 1..Len(calls) :
                  /\ calls[n].ingest_ns = pub[p].enriched_event.ingest_ns
                  /\ calls[n].by = p
                  /\ calls[n].end = "running"}) = 1

\* C4 witness: two tasks are inside publish() at the same time, each with
\* the number it took
C4_Witness ==
    /\ Len(calls) >= 2
    /\ \A p \in Publishers : pub[p].pc = "deliver"
    /\ pub["main"].enriched_event.ingest_ns > pub["task"].enriched_event.ingest_ns

\* C5: in every bounded FIFO the items read followed by the items still
\* queued carry strictly increasing delivery sequence numbers.
C5_FifoOrderIsPublishOrder ==
    \A q \in Fifos : StrictlyIncreasing(Seqs(taken[q] \o buf[q]))

\* the queues of the routes declared for event type et
QueuesOfType(et) ==
    IF et \in DOMAIN table
    THEN {table[et][i].queue : i \in 1..Len(table[et])}
    ELSE {}

\* the deliveries tried on queue q for the event with sequence number n
AttemptsOf(q, n) ==
    {i \in 1..Len(attempts[q]) : attempts[q][i].event.ingest_ns = n}

\* every event queue q holds or has handed to its subscriber
ItemsOf(q) ==
    {taken[q][i] : i \in 1..Len(taken[q])}
    \cup (IF q \in Fifos THEN {buf[q][i] : i \in 1..Len(buf[q])} ELSE {})
    \cup (IF q \in Latests THEN {slot[q][i] : i \in 1..Len(slot[q])} ELSE {})
    \cup (IF q \in Isolateds
          THEN {inbox[q][i] : i \in 1..Len(inbox[q])}
               \cup {out[q][i] : i \in 1..Len(out[q])}
               \cup ({drain[q].value} \ {None})
          ELSE {})

\* C6: a publish of an event of type T that has returned tried exactly one
\* delivery on the queue of every subscription of T, all with the same
\* enriched event, and none on any other queue; no queue holds an event of a
\* type it was not declared for.
C6_FanOut ==
    /\ \A n \in 1..Len(calls) :
          (calls[n].end = "returned" /\ calls[n].event_type \in DOMAIN table) =>
              \A q \in Queues :
                  /\ Cardinality(AttemptsOf(q, calls[n].ingest_ns)) =
                        (IF q \in QueuesOfType(calls[n].event_type) THEN 1 ELSE 0)
                  /\ \A i \in AttemptsOf(q, calls[n].ingest_ns) :
                        attempts[q][i].event =
                            EnrichedEvent(calls[n].event_type, calls[n].ingest_ns)
    /\ \A q \in Queues : \A e \in ItemsOf(q) : e.event_type = q[2]

\* C6 witness: a publish of "A" returned after the isolated forwarder, first
\* in the route list, rejected it and the bounded FIFO after it holds it,
\* while the latest slot declared for "B" still holds the "B" event
C6_Witness ==
    \E n \in 1..Len(calls) :
        /\ calls[n].end = "returned"
        /\ calls[n].event_type = "A"
        /\ \E i \in AttemptsOf(<<"s2", "A">>, calls[n].ingest_ns) :
              ~attempts[<<"s2", "A">>][i].ok
        /\ buf[<<"s1", "A">>] = << EnrichedEvent("A", calls[n].ingest_ns) >>
        /\ slot[<<"s1", "B">>] = << EnrichedEvent("B", 0) >>

\* the deliveries queue q has rejected so far
Rejected(q) == {i \in 1..Len(attempts[q]) : ~attempts[q][i].ok}

\* C7: the drop counter of every subscription equals the number of delivery
\* attempts its queue has rejected so far.
C7_DropsAreRejections ==
    \A q \in Queues : drops_total[q] = Cardinality(Rejected(q))

\* C7 witness: an isolated forwarder has accepted and rejected deliveries
\* and a bounded FIFO fed by the same publishes has rejected none
C7_Witness ==
    /\ drops_total[<<"s2", "A">>] >= 2
    /\ Len(attempts[<<"s2", "A">>]) > drops_total[<<"s2", "A">>]
    /\ Len(attempts[<<"s1", "A">>]) > drops_total[<<"s2", "A">>]
    /\ drops_total[<<"s1", "A">>] = 0

\* the events queue q still holds, the hand of its drain task included
Held(q) ==
    IF q \in Fifos THEN Len(buf[q])
    ELSE IF q \in Latests THEN Len(slot[q])
    ELSE Len(inbox[q]) + Len(out[q]) + (IF drain[q].value = None THEN 0 ELSE 1)

\* the events delivery was tried for on q that the subscriber of q did not
\* read and cannot read any more
Lost(q) == Len(attempts[q]) - Len(taken[q]) - Held(q)

LastCall == calls[Len(calls)]

\* C9: with strict routing disabled a publish of an event type without
\* subscription returns without a panic, increments the unrouted counter by
\* exactly 1 and leaves every queue and every drop counter unchanged.
C9_UnroutedCounted ==
    [][ (/\ ~strict_routing
         /\ Len(calls') = Len(calls) + 1
         /\ LastCall'.event_type \notin DOMAIN table)
        => (/\ unrouted_publish_total' = unrouted_publish_total + 1
            /\ LastCall'.end = "returned"
            /\ ~aborted'
            /\ pub'[LastCall'.by].pc = "idle"
            /\ UNCHANGED << buf, slot, inbox, out, drain, drops_total >>) ]_vars

\* C9 witness: an unrouted publish has returned and was counted while a
\* queue holds an event
C9_Witness ==
    /\ ~strict_routing
    /\ Len(calls) >= 2
    /\ LastCall.event_type \notin DOMAIN table
    /\ LastCall.end = "returned"
    /\ unrouted_publish_total = 1
    /\ buf[<<"s1", "A">>] # <<>>

\* C10: with strict routing enabled a publish of an event type without
\* subscription aborts the process, whichever task made it, without any
\* delivery; only such a publish aborts the process.
C10_StrictUnroutedAborts ==
    /\ \A n \in 1..Len(calls) :
          calls[n].event_type \notin DOMAIN table =>
              /\ aborted
              /\ \A q \in Queues : AttemptsOf(q, calls[n].ingest_ns) = {}
    /\ aborted => \E n \in 1..Len(calls) : calls[n].event_type \notin DOMAIN table

\* ------------------------------------------------------ claims on workers
\* the publish calls of PipelineFailed events made by task w, oldest first
FailedBy(w) ==
    SelectSeq(calls, LAMBDA c : c.by = w /\ c.event_type = "pipeline.failed")

\* the handler invocations of worker w that returned an error, oldest first
ErrorsOf(w) == SelectSeq(handled[w], LAMBDA h : h.result = "Err")

\* C11: the PipelineFailed events the run-loop of a worker has published are,
\* one for one and in order, its handler invocations that returned an error:
\* each names the id of the handled event as its single parent and the
\* subscriber identity of the worker as its stage; an invocation that
\* returned success added none, and no other task published one.
C11_OneFailurePerError ==
    /\ \A w \in Subscribers :
          /\ Len(FailedBy(w)) = Len(ErrorsOf(w))
          /\ \A i \in 1..Len(FailedBy(w)) :
                /\ FailedBy(w)[i].event.parents =
                      << ErrorsOf(w)[i].event.event.event_id >>
                /\ FailedBy(w)[i].event.stage = w
    /\ \A n \in 1..Len(calls) :
          calls[n].event_type = "pipeline.failed" => calls[n].by \in Subscribers

\* C11 witness: a worker has handled one event with success and one with an
\* error, and its PipelineFailed has been published
C11_Witness ==
    \E w \in Subscribers :
        /\ Len(handled[w]) = 2
        /\ handled[w][1].result = "Ok"
        /\ handled[w][2].result = "Err"
        /\ Len(FailedBy(w)) = 1
        /\ run[w].pc = "select"

\* the process runs and the task of worker w has not panicked
StillRunning(w) == ~aborted /\ run[w].pc # "panicked"

\* the failure of a handler can be published without a panic
Reportable == ~strict_routing \/ "pipeline.failed" \in DOMAIN table

\* the delivery sequence numbers a run can hand out
Seqnos == 0..(2 * MaxEmit)

\* the queue of "w1" holds the event with sequence number n
Queued(q, n) == \E i \in 1..Len(buf[q]) : buf[q][i].ingest_ns = n

\* the handler of w has returned for the event with sequence number n
HandledBy(w, n) ==
    \E i \in 1..Len(handled[w]) : handled[w][i].event.ingest_ns = n

\* queue q has evicted the event with sequence number n
EvictedFrom(q, n) == \E e \in evicted[q] : e.ingest_ns = n

\* C12 as stated: a worker whose handler has returned an error is still
\* running: its task has not panicked and the process has not aborted.
C12_ErrorNeverEndsRun ==
    \A w \in Subscribers : ErrorsOf(w) # <<>> => StillRunning(w)

\* C12 amended: on a bus where PipelineFailed has a subscription or strict
\* routing is disabled, a worker whose handler has returned an error is still
\* running, and every event that is in its queue after that is eventually
\* handled, unless it is evicted or the shutdown is broadcast.
C12_ErrorKeepsRunLoop ==
    /\ [](Reportable => \A w \in Subscribers : ErrorsOf(w) # <<>> => StillRunning(w))
    /\ \A n \in Seqnos :
          (Reportable /\ ErrorsOf("w1") # <<>> /\ Queued(<<"w1", "A">>, n))
              ~> (\/ HandledBy("w1", n)
                  \/ EvictedFrom(<<"w1", "A">>, n)
                  \/ shutdown.sent > 0)

\* C12 witness: the handler of "w1" returned an error for one event and
\* later returned for an event published after that failure was published
C12_Witness ==
    /\ Reportable
    /\ Len(handled["w1"]) = 2
    /\ handled["w1"][1].result = "Err"
    /\ handled["w1"][2].event.ingest_ns > FailedBy("w1")[1].ingest_ns
    /\ shutdown.sent = 0

\* C13: once the shutdown has been broadcast, worker "w1", if it is running
\* (in select! or inside its handler), eventually returns Ok(()) from its
\* run-loop, whatever worker "w2" does and whatever its queue holds.
C13_ShutdownEndsRun ==
    (shutdown.sent > 0 /\ run["w1"].pc \in {"select", "handle"})
        ~> (run["w1"].pc = "returned")

\* C13 witness: "w1" has returned while an event is still in its queue and
\* "w2" has not read the shutdown message
C13_Witness ==
    /\ run["w1"].pc = "returned"
    /\ buf[<<"w1", "A">>] # <<>>
    /\ run["w2"].pc = "select"
    /\ shutdown.ready["w2"]

\* C19: no two publish calls carry events with the same event id.
C19_UniqueEventIds ==
    \A i, j \in 1..Len(calls) :
        i # j => calls[i].event.event_id # calls[j].event.event_id

\* --------------------------------------------------- claims on next()
\* C14: in every queue the items next() has returned are pairwise distinct,
\* each was accepted by a delivery into that queue, none of them is still
\* queued, and none of them is an item a delivery had displaced (evicted
\* from a full bounded FIFO or overwritten in a latest slot).
C14_NoItemTwice ==
    \A q \in Queues :
        /\ \A i, j \in 1..Len(taken[q]) : i # j => taken[q][i] # taken[q][j]
        /\ \A i \in 1..Len(taken[q]) :
              /\ \E k \in 1..Len(attempts[q]) :
                    attempts[q][k].ok /\ attempts[q][k].event = taken[q][i]
              /\ taken[q][i] \notin evicted[q]
              /\ q \in Fifos => \A k \in 1..Len(buf[q]) : buf[q][k] # taken[q][i]
              /\ q \in Latests => \A k \in 1..Len(slot[q]) : slot[q][k] # taken[q][i]
              /\ q \in Isolateds => \A k \in 1..Len(out[q]) : out[q][k] # taken[q][i]

\* C14 witness: a bounded FIFO evicted its first item, its subscriber read
\* the second, and the next scan of that queue found nothing
C14_Witness ==
    \E q \in Fifos :
        /\ Len(attempts[q]) = 2
        /\ evicted[q] = {attempts[q][1].event}
        /\ taken[q] = << attempts[q][2].event >>
        /\ buf[q] = <<>>
        /\ inputs[OwnerOf(q)].pc = "wait"

\* C15: for a subscriber without latest-slot input and with k FIFO-class
\* inputs, while an input has had an item pending, next() has returned items
\* of other inputs at most k - 1 times in a row.
C15_ServedWithinK ==
    \A s \in Subscribers :
        wiring[s].latest = <<>> =>
            \A q \in FifoClass(s) : waited[q] <= Len(wiring[s].fifos) - 1

\* C15 witness: an input of a subscriber with three FIFO-class inputs holds
\* an item while next() has returned items of the two other inputs
C15_Witness ==
    \E s \in Subscribers :
        /\ wiring[s].latest = <<>>
        /\ Len(wiring[s].fifos) = 3
        /\ \E q \in FifoClass(s) : waited[q] = 2 /\ Pending(q) # <<>>


\* ----------------------------------------------------- claims on the builder
\* the input declares a capacity or an output buffer of zero
ZeroSized(i) ==
    \/ /\ i.queue_kind.kind \in {"FifoDropOldest", "BoundedDropNewest"}
       /\ i.queue_kind.capacity = 0
    \/ /\ i.queue_kind.kind = "Isolated"
       /\ i.queue_kind.output_buffer = 0

\* some declared subscription has one of the five defects
Malformed(ss) ==
    \E n \in 1..Len(ss) :
        \/ ss[n].subscriber_id = ""
        \/ \E k \in 1..(n - 1) : ss[k].subscriber_id = ss[n].subscriber_id
        \/ ss[n].inputs = <<>>
        \/ \E a, b \in 1..Len(ss[n].inputs) :
              a < b /\ ss[n].inputs[a].event_type = ss[n].inputs[b].event_type
        \/ \E a \in 1..Len(ss[n].inputs) : ZeroSized(ss[n].inputs[a])

\* build() made no bus, no wiring and no drain task
NothingBuilt ==
    /\ table = <<>>
    /\ wiring = <<>>
    /\ drain = <<>>
    /\ buf = <<>> /\ slot = <<>> /\ inbox = <<>> /\ out = <<>>

\* C16: once build() has ended on a declaration in which some subscription
\* has an empty identity, an identity used by an earlier subscription, no
\* input, the same event-type tag twice, or a capacity or output buffer of
\* zero, it has returned an error: it did not panic and nothing was built.
C16_MalformedIsError ==
    (built # "none" /\ Malformed(decl)) =>
        (built = "Err" /\ ~aborted /\ NothingBuilt)

\* build() has returned an error on a declaration whose only defect is the
\* identity of the second subscription repeating the first, and whose first
\* subscription alone would have been built
C16_Witness ==
    /\ built = "Err"
    /\ Len(decl) = 2
    /\ decl[2].subscriber_id = decl[1].subscriber_id
    /\ ~Malformed(<< decl[1] >>)
    /\ decl[2].inputs # <<>>
    /\ \A a \in 1..Len(decl[2].inputs) : ~ZeroSized(decl[2].inputs[a])
    /\ NothingBuilt

\* validation accepts the declaration, and an input of the unimplemented
\* policy is declared with a capacity that is not zero
DropNewestOnly(ss) ==
    /\ ~Malformed(ss)
    /\ validate(ss) = "Ok"
    /\ \E i \in 1..Len(FlatInputs(ss)) :
          /\ FlatInputs(ss)[i].queue_kind.kind = "BoundedDropNewest"
          /\ FlatInputs(ss)[i].queue_kind.capacity > 0

\* C17: once build() has ended on a declaration that has an input of the
\* bounded-drop-newest policy with a non-zero capacity, it has returned an
\* error, as it does for the validation failures, and has not panicked.
C17_DropNewestIsBuildError ==
    (built # "none" /\ DropNewestOnly(decl)) =>
        (built = "Err" /\ ~aborted)

\* the takes before the n-th asked for another identity
FirstTake(n) ==
    \A k \in 1..(n - 1) : takes[k].subscriber_id # takes[n].subscriber_id

\* C18: after a successful build every take returns the inputs declared for
\* its identity when the identity is declared and was not taken before, and
\* nothing otherwise, whatever other identities were taken in between; the
\* wiring still holds the inputs of exactly the identities not yet taken.
C18_TakenOnce ==
    /\ \A n \in 1..Len(takes) :
          takes[n].result =
              IF /\ takes[n].subscriber_id \in DOMAIN BuildWiring(decl)
                 /\ FirstTake(n)
              THEN BuildWiring(decl)[takes[n].subscriber_id]
              ELSE None
    /\ built = "Ok" =>
          wiring = [s \in DOMAIN BuildWiring(decl)
                          \ {takes[n].subscriber_id : n \in 1..Len(takes)}
                      |-> BuildWiring(decl)[s]]

\* "s1" was taken, taken again for nothing, an undeclared identity was asked
\* for, and "s2" still got its own inputs afterwards
C18_Witness ==
    /\ Len(takes) = 4
    /\ takes[1].subscriber_id = "s1" /\ takes[1].result # None
    /\ takes[2].subscriber_id = "s1" /\ takes[2].result = None
    /\ takes[3].subscriber_id = "zz" /\ takes[3].result = None
    /\ takes[4].subscriber_id = "s2"
    /\ "s2" \in DOMAIN BuildWiring(decl)
    /\ takes[4].result = BuildWiring(decl)["s2"]
    /\ takes[4].result # takes[1].result


\* ------------------------------------------------ claims on the CLI pipeline
\* the ids of the events that start a job
JobIds == 0..(MaxEmit - 1)

SinkFailures == << Sink, "pipeline.failed" >>

\* the handler of stage w has returned an error for the event with id n
ErrFor(w, n) ==
    \E i \in 1..Len(ErrorsOf(w)) : ErrorsOf(w)[i].event.event.event_id = n

\* e is the failure of stage w on the event with id n
FailureOf(e, w, n) ==
    e.event_type = "pipeline.failed" /\ e.stage = w /\ e.parents = << n >>

\* the completion channel carries the failure of stage w on event n
ReportedFailure(w, n) ==
    /\ done.result # None
    /\ DOMAIN done.result = {"Err"}
    /\ FailureOf(done.result.Err, w, n)

\* the handler of the sink has returned for the failure of stage w on event n
SinkHandled(w, n) ==
    \E i \in 1..Len(handled[Sink]) : FailureOf(handled[Sink][i].event.event, w, n)

\* the handler of stage w has returned an error for event n and the sink
\* has not handled the failure nor has its queue evicted it
Unhandled(w, n) ==
    /\ ErrFor(w, n)
    /\ ~SinkHandled(w, n)
    /\ \A e \in evicted[SinkFailures] : ~FailureOf(e.event, w, n)

\* what the sink sends for the first event it handles
FirstCompletion ==
    IF handled[Sink] = <<>> THEN None
    ELSE LET e == handled[Sink][1].event.event
         IN IF e.event_type = "pipeline.failed" THEN [Err |-> e] ELSE [Ok |-> e]

\* C20 as stated: when the handler of the download stage has returned an
\* error for a job and nothing has been reported on the completion channel,
\* the channel eventually carries the failure of that stage on that job.
C20_FailureReported ==
    \A n \in JobIds :
        (ErrFor("youtube.download", n) /\ done.result = None)
            ~> ReportedFailure("youtube.download", n)

\* C20 amended: while the pipeline is not shut down, when the handler of a
\* stage has returned an error for a job, the sink eventually handles the
\* resulting PipelineFailed event, unless its queue evicts the event; the
\* completion channel carries what the sink sent for the first ReportCompiled
\* or PipelineFailed event it handled and nothing later; and a failure the
\* sink handles names the stage whose handler returned the error.
C20_FirstCompletionReported ==
    /\ [](done.result = FirstCompletion)
    /\ [](\A i \in 1..Len(handled[Sink]) :
             LET e == handled[Sink][i].event.event
             IN e.event_type = "pipeline.failed" =>
                    \E w \in CliStages : e.stage = w /\ ErrFor(w, e.parents[1]))
    /\ (\E n \in JobIds : Unhandled("youtube.download", n))
          ~> (\A n \in JobIds : ~Unhandled("youtube.download", n))

\* C20 witness: the download stage failed on two jobs; the sink has handled
\* both failures and the channel carries the first
C20_Witness ==
    /\ Len(handled[Sink]) = 2
    /\ Len(ErrorsOf("youtube.download")) = 2
    /\ handled[Sink][1].event.event_type = "pipeline.failed"
    /\ handled[Sink][2].event.event_type = "pipeline.failed"
    /\ ReportedFailure("youtube.download",
                       handled[Sink][1].event.event.parents[1])
    /\ ~ReportedFailure("youtube.download",
                        handled[Sink][2].event.event.parents[1])


\* --------------------------------------------------- claims on the wake-up
\* the queues of the latest-slot inputs of subscriber s
LatestClass(s) == {wiring[s].latest[i] : i \in 1..Len(wiring[s].latest)}

\* a queue that next() of s reads holds an item
Visible(s) ==
    \/ \E q \in LatestClass(s) : slot[q] # <<>>
    \/ \E q \in FifoClass(s) : Pending(q) # <<>>

\* next() of s is suspended in notify_any.notified().await
Suspended(s) == inputs[s].pc = "wait"

StoresInto(q) ==
    IF q \in Isolateds THEN Len(out'[q]) > Len(out[q])
    ELSE attempts'[q] # attempts[q]

\* this step is a readout of a FIFO-class item from q by next()
ReadsOutOf(q) == q \in FifoClass(OwnerOf(q)) /\ taken'[q] # taken[q]

\* C22: every step that stores an item into a queue of subscriber "s1", and
\* every step in which next() of "s1" reads out a FIFO-class item, leaves the
\* wake signal of "s1" signalled.
C22_DeliveryAndReadoutSignal ==
    [][\A q \in Queues :
          (StoresInto(q) \/ ReadsOutOf(q)) => permit'[OwnerOf(q)]]_vars


\* ------------------------------------------------- claims on the priority
\* the latest-slot input that next() of s scans in its next step
Scanned(s) == wiring[s].latest[inputs[s].j]

\* the snapshot update that a scan of latest slot q yields
Update(q) ==
    IF slot[q] = <<>> THEN <<>>
    ELSE << [event_type |-> q[2], event |-> slot[q][1]] >>

\* the snapshots next() of s holds once it has scanned Scanned(s)
Batch(s) == inputs[s].snaps \o Update(Scanned(s))

\* this step is a scan of a latest slot by next() of s
LatestStep(s) == inputs[s].pc = "latest" /\ inputs'[s] # inputs[s]

\* the place of the latest-slot input of type et in the declaration of s
PlaceOf(s, et) ==
    CHOOSE i \in 1..Len(wiring[s].latest) : wiring[s].latest[i][2] = et

\* the snapshots collected so far are of inputs already scanned, one per
\* input, in declaration order, and each is the value last read from its slot
InOrder(s) ==
    \A n \in 1..Len(inputs[s].snaps) :
       LET u == inputs[s].snaps[n]
       IN /\ \E i \in 1..Len(wiring[s].latest) : wiring[s].latest[i][2] = u.event_type
          /\ PlaceOf(s, u.event_type) < inputs[s].j
          /\ \A m \in 1..(n - 1) :
                PlaceOf(s, inputs[s].snaps[m].event_type) < PlaceOf(s, u.event_type)
          /\ taken[<< s, u.event_type >>] # <<>>
          /\ u.event = taken[<< s, u.event_type >>][Len(taken[<< s, u.event_type >>])]

\* C23: the scan of the latest slots by next() of "s1" reads every slot that
\* holds a value and leaves it empty, collects one update per such slot in
\* declaration order, touches no other slot, no FIFO-class queue and not the
\* round-robin cursor, and after the last slot next() returns the batch
\* exactly when it holds at least one update.
C23_LatestPriority ==
    /\ [](inputs["s1"].pc = "latest" => InOrder("s1"))
    /\ [][LatestStep("s1") =>
            LET q == Scanned("s1")
            IN /\ slot'[q] = <<>>
               /\ \A x \in Latests \ {q} : slot'[x] = slot[x]
               /\ taken'[q] = taken[q] \o slot[q]
               /\ buf' = buf /\ out' = out
               /\ inputs'["s1"].fifo_index = inputs["s1"].fifo_index
               /\ IF inputs["s1"].j < Len(wiring["s1"].latest)
                  THEN /\ inputs'["s1"].pc = "latest"
                       /\ inputs'["s1"].j = inputs["s1"].j + 1
                       /\ inputs'["s1"].snaps = Batch("s1")
                  ELSE (Batch("s1") # <<>>) <=> (inputs'["s1"].pc = "idle")]_vars

\* next() is about to return a batch of two updates while the FIFO holds an
\* item
C23_Witness ==
    /\ inputs["s1"].pc = "latest"
    /\ inputs["s1"].j = Len(wiring["s1"].latest)
    /\ Len(Batch("s1")) = 2
    /\ buf[<< "s1", "C" >>] # <<>>
    /\ decl = SnapSubs


\* ---------------------------------------------------- claims on the scan
\* this step is a scan of a FIFO-class input by next() of s
FifoStep(s) == inputs[s].pc = "fifo" /\ inputs'[s] # inputs[s]

\* the queue of the FIFO-class input under the round-robin cursor of s
UnderCursor(s) == wiring[s].fifos[inputs[s].fifo_index + 1].queue

\* the items of FIFO-class queue q that try_recv can reach after this step
PendingAfter(q) == IF q \in Fifos THEN buf'[q] ELSE out'[q]

\* C24: a scan step of next() of "s1" at input i of k moves the cursor to
\* (i + 1) mod k; if the input holds an item, next() returns with exactly the
\* front item of that input removed and nothing else changed; if it is empty,
\* no queue changes and the scan goes on, up to a full lap; next() waits only
\* with the cursor back where the lap started.
C24_ScanAndCursor ==
    /\ [](inputs["s1"].pc = "wait" /\ wiring["s1"].fifos # <<>>
             => inputs["s1"].fifo_index = inputs["s1"].start)
    /\ [][FifoStep("s1") =>
            LET q == UnderCursor("s1")
                k == Len(wiring["s1"].fifos)
            IN /\ inputs'["s1"].fifo_index = (inputs["s1"].fifo_index + 1) % k
               /\ inputs'["s1"].start = inputs["s1"].start
               /\ \A x \in FifoClass("s1") \ {q} : PendingAfter(x) = Pending(x)
               /\ IF Pending(q) # <<>>
                  THEN /\ inputs'["s1"].pc = "idle"
                       /\ PendingAfter(q) = Tail(Pending(q))
                       /\ taken'[q] = Append(taken[q], Head(Pending(q)))
                  ELSE /\ PendingAfter(q) = <<>>
                       /\ taken' = taken
                       /\ inputs'["s1"].pc =
                             IF inputs'["s1"].fifo_index = inputs["s1"].start
                             THEN "wait" ELSE "fifo"]_vars

\* next() started its lap at the second of three inputs, found the second and
\* the third empty and is about to return the item of the first
C24_Witness ==
    /\ Len(wiring["s1"].fifos) = 3
    /\ inputs["s1"].pc = "fifo"
    /\ inputs["s1"].start = 1
    /\ inputs["s1"].fifo_index = 0
    /\ Pending(UnderCursor("s1")) # <<>>


\* --------------------------------------------------- claims on the bounds
\* C25: whatever is published and whether or not anything is read, a bounded
\* FIFO holds at most its capacity, a latest slot at most one item, the output
\* channel of an isolated forwarder at most its output buffer and its inbox at
\* most InboxSize items.
C25_QueueBounds ==
    /\ \A q \in Fifos : Len(buf[q]) <= KindOfQueue(decl, q).capacity
    /\ \A q \in Latests : Len(slot[q]) <= 1
    /\ \A q \in Isolateds :
          /\ Len(out[q]) <= KindOfQueue(decl, q).output_buffer
          /\ Len(inbox[q]) <= InboxSize

\* every queue is full, nothing has been read, and a further delivery was
\* refused by the full inbox
C25_Witness ==
    /\ \A q \in Fifos : Len(buf[q]) = KindOfQueue(decl, q).capacity
    /\ \A q \in Latests : Len(slot[q]) = 1
    /\ \A q \in Isolateds :
          /\ Len(out[q]) = KindOfQueue(decl, q).output_buffer
          /\ Len(inbox[q]) = InboxSize
          /\ drops_total[q] > 0
    /\ Isolateds # {} /\ Fifos # {} /\ Latests # {}
    /\ \A q \in Queues : taken[q] = <<>>


\* ------------------------------------------------ claims on the drain task
\* the events the inbox of isolated queue q has accepted, in order
Accepted(q) ==
    LET ok == SelectSeq(attempts[q], LAMBDA a : a.ok)
    IN [i \in 1..Len(ok) |-> ok[i].event]

\* the value the drain task of q holds between recv and send
InHand(q) == IF drain[q].pc = "send" THEN << drain[q].value >> ELSE <<>>

Declared ==
    UNION {{<< p, i >> : i \in 1..Len(decl[p].inputs)} : p \in 1..Len(decl)}

\* the declared input x
InputAt(x) == decl[x[1]].inputs[x[2]]

\* x is declared before y
Before(x, y) == x[1] < y[1] \/ (x[1] = y[1] /\ x[2] < y[2])

\* the class of the multiplexer a declared input belongs to
ClassOf(x) == IF InputAt(x).queue_kind.kind = "Latest1" THEN "latest" ELSE "fifo"

\* the place of x among the members of set S, in declaration order
Rank(x, S) == Cardinality({y \in S : Before(y, x)}) + 1

\* the build has just returned Ok and nothing has been taken from the wiring
JustBuilt == built = "Ok" /\ takes = <<>>

\* C27: after a successful build the routing table holds, under each event
\* type, exactly one route per declared input of that type, in declaration
\* order, naming the declaring subscriber, the declared policy and a queue of
\* its own; the wiring holds exactly the declared subscribers, each with its
\* latest inputs in the latest class and its bounded-FIFO and isolated inputs
\* in the FIFO class, in declaration order, and a cursor at 0.
C27_BuildMatchesDeclaration ==
    JustBuilt =>
      /\ DOMAIN table = {InputAt(x).event_type : x \in Declared}
      /\ \A et \in DOMAIN table :
            LET S == {x \in Declared : InputAt(x).event_type = et}
            IN /\ Len(table[et]) = Cardinality(S)
               /\ \A x \in S :
                     LET route == table[et][Rank(x, S)]
                     IN /\ route.subscriber_id = decl[x[1]].subscriber_id
                        /\ route.inbox = InputAt(x).queue_kind.kind
                        /\ route.queue = << decl[x[1]].subscriber_id, et >>
      /\ \A et1 \in DOMAIN table, et2 \in DOMAIN table :
            \A i \in 1..Len(table[et1]), j \in 1..Len(table[et2]) :
               (table[et1][i].queue = table[et2][j].queue) => (et1 = et2 /\ i = j)
      /\ DOMAIN wiring = {decl[p].subscriber_id : p \in 1..Len(decl)}
      /\ \A p \in 1..Len(decl) :
            LET s == decl[p].subscriber_id
                L == {x \in Declared : x[1] = p /\ ClassOf(x) = "latest"}
                F == {x \in Declared : x[1] = p /\ ClassOf(x) = "fifo"}
            IN /\ Len(wiring[s].latest) = Cardinality(L)
               /\ \A x \in L :
                     wiring[s].latest[Rank(x, L)] = << s, InputAt(x).event_type >>
               /\ Len(wiring[s].fifos) = Cardinality(F)
               /\ \A x \in F :
                     /\ wiring[s].fifos[Rank(x, F)].queue = << s, InputAt(x).event_type >>
                     /\ wiring[s].fifos[Rank(x, F)].receiver = InputAt(x).queue_kind.kind
               /\ inputs[s].fifo_index = 0

\* a build of two subscriptions with an event type in common succeeded; the
\* first declares a latest input and an isolated input
C27_Witness ==
    /\ JustBuilt
    /\ Len(decl) = 2
    /\ \E et \in DOMAIN table : Len(table[et]) = 2
    /\ Len(wiring[decl[1].subscriber_id].latest) = 1
    /\ Len(wiring[decl[1].subscriber_id].fifos) = 1
    /\ wiring[decl[1].subscriber_id].fifos[1].receiver = "Isolated"


\* the queues of the declared inputs of the isolated policy
DeclaredIsolated ==
    {<< decl[x[1]].subscriber_id, InputAt(x).event_type >> :
        x \in {y \in Declared : InputAt(y).queue_kind.kind = "Isolated"}}

\* C28: a successful build returns one drain task for each declared isolated
\* input and no other, and each drain task has the inbox and the output
\* channel of its own input, which no other input has.
C28_OneDrainPerIsolated ==
    JustBuilt =>
      /\ DOMAIN drain = DeclaredIsolated
      /\ DOMAIN inbox = DeclaredIsolated
      /\ DOMAIN out = DeclaredIsolated
      /\ Cardinality(DOMAIN drain) =
            Cardinality({x \in Declared : InputAt(x).queue_kind.kind = "Isolated"})
      /\ \A q \in DOMAIN drain : q \notin DOMAIN buf /\ q \notin DOMAIN slot

\* a build with two isolated inputs and a bounded FIFO succeeded
C28_Witness ==
    /\ JustBuilt
    /\ Cardinality(DOMAIN drain) = 2
    /\ Cardinality(Declared) = 3
    /\ DOMAIN buf # {}


\* -------------------------------------------------- claims on the start-up
\* a publish call has been made or is being made
Published == calls # <<>> \/ \E p \in DOMAIN pub : pub[p].pc = "deliver"

\* start_pipeline has returned the handle to its caller
Returned == pub["main"].pc \notin {"build", "start"}

\* C29: in start_pipeline nothing is spawned before the build has succeeded;
\* a worker is spawned, and the handle is returned, only when every drain
\* task is spawned, and the handle only when every worker is spawned too; no
\* publish call is made while a drain task is not spawned.
C29_StartupOrder ==
    /\ built # "Ok" => NotSpawned = DOMAIN run /\ ~Returned
    /\ NotSpawned # DOMAIN run => NotStarted = {}
    /\ Returned => NotStarted = {} /\ NotSpawned = {}
    /\ Published => NotStarted = {}

\* the handle is returned, its holder has published a request and the drain
\* task of the sink has handed a compiled report to the output channel
C29_Witness ==
    /\ Returned
    /\ decl = CliSubs
    /\ \E i \in 1..Len(calls) : calls[i].by = "main"
    /\ Len(takes) = Len(CliSubs)
    /\ out[SinkDrain] # <<>>


\* ------------------------------------------------- claims on the consumer
\* the subscribers whose multiplexer reads queue q
ConsumersOf(q) == {s \in Subscribers : q \in LatestClass(s) \cup FifoClass(s)}

\* the routes of the routing table
Routes == UNION {{table[et][i] : i \in 1..Len(table[et])} : et \in DOMAIN table}

\* C30: the queue of every route is read by the multiplexer of the
\* subscriber the route names and by no other, and every step in which an
\* item leaves a queue towards next() is a step of next() of that subscriber
\* alone.
C30_OneConsumer ==
    /\ [](\A route \in Routes : ConsumersOf(route.queue) = {route.subscriber_id})
    /\ [][\A route \in Routes :
            taken'[route.queue] # taken[route.queue] =>
               \A s \in Subscribers :
                  (inputs'[s] # inputs[s]) <=> (s = route.subscriber_id)]_vars

\* two subscribers of the same event type have each read the same event from
\* a queue of their own
C30_Witness ==
    /\ decl = BusSubs
    /\ inputs["s1"].pc = "idle" /\ inputs["s2"].pc = "idle"
    /\ taken[<< "s1", "A" >>] # <<>>
    /\ taken[<< "s2", "A" >>] # <<>>
    /\ taken[<< "s1", "A" >>][1] = taken[<< "s2", "A" >>][1]


\* ------------------------------------------------ claims on the bus state
\* C31: once the bus is built, no step of a publish, of next(), of a drain
\* task or of start_pipeline's takes changes the routing table, and none
\* changes the session id or the routing mode of the bus.
C31_TableFrozen ==
    [][built = "Ok" =>
          /\ table' = table
          /\ session_id' = session_id
          /\ strict_routing' = strict_routing]_vars

\* every worker has been given its inputs by take, two events have been
\* published, the download stage and the sink have each read one, the
\* sink's through its drain task
C31_Witness ==
    /\ built = "Ok"
    /\ Len(takes) = Len(CliSubs)
    /\ next_ingest_seq >= 2
    /\ taken[SinkDrain] # <<>>
    /\ taken[<< "youtube.download", "youtube.url_requested" >>] # <<>>


\* ------------------------------------------------ claims on the pipeline
\* C32: every PipelineFailed event published names as its parent an event
\* whose handling by the publishing worker returned an error, the only case
\* in which the run-loop publishes one: no handler that returned success has
\* published a PipelineFailed.
C32_OnlyRunLoopFails ==
    \A n \in 1..Len(calls) :
       calls[n].event_type = "pipeline.failed" =>
          /\ calls[n].by \in DOMAIN handled
          /\ \E i \in 1..Len(handled[calls[n].by]) :
                /\ handled[calls[n].by][i].result = "Err"
                /\ << handled[calls[n].by][i].event.event.event_id >>
                      = calls[n].event.parents


\* C33: in the CLI pipeline no worker has a latest-slot input, so next() of
\* no worker ever scans a latest slot or holds a snapshot, and no run-loop
\* has reached the branch that answers a snapshot batch.
C33_NoSnapshotBatch ==
    built = "Ok" =>
       \A w \in Subscribers :
          /\ wiring[w].latest = <<>>
          /\ inputs[w].pc # "latest"
          /\ inputs[w].snaps = <<>>
          /\ run[w].pc # "panicked"

\* the pipeline is started, the download stage has been handed an item by
\* next() and the sink is suspended in next() after a lap over its inputs
C33_Witness ==
    /\ built = "Ok"
    /\ Returned
    /\ run["youtube.download"].pc = "handle"
    /\ inputs[Sink].pc = "wait"


\* ------------------------------------------------ claims on the run-loop
\* the run-loop of w is inside the body of its FifoItem branch: its handler
\* is running, or the publish started there has not returned
Handling(w) == run[w].pc = "handle" \/ (run[w].pc = "select" /\ pub[w].pc # "idle")

\* the item the handler of w is working on
InHandler(w) == IF run[w].pc = "handle" THEN << run[w].parent >> ELSE <<>>

\* the items the handler of w has been invoked with, in order
Invoked(w) == [i \in 1..Len(handled[w]) |-> handled[w][i].event] \o InHandler(w)

\* C34: a worker with one input has been invoked with exactly the items
\* next() returned to it, in that order, one invocation at a time; while an
\* invocation is in progress its multiplexer does not move, nothing is read
\* from its queue and its run-loop does not return on shutdown.
C34_OneItemAtATime ==
    /\ [](\A w \in Subscribers :
             Len(wiring[w].fifos) = 1 /\ wiring[w].latest = <<>> =>
                Invoked(w) = taken[wiring[w].fifos[1].queue])
    /\ [][\A w \in Subscribers :
            Handling(w) =>
               /\ inputs'[w] = inputs[w]
               /\ \A q \in FifoClass(w) : taken'[q] = taken[q]
               /\ run'[w].pc # "returned"]_vars

\* a worker is handling its second item while the shutdown broadcast waits
\* in its receiver
C34_Witness ==
    \E w \in Subscribers :
        /\ run[w].pc = "handle"
        /\ Len(handled[w]) = 1
        /\ shutdown.ready[w]
        /\ decl = WorkerSubs

\* ------------------------------------------- claims on concurrent publishes
\* the items of a sequence
Items(es) == {es[i] : i \in 1..Len(es)}

\* C35: whatever the interleaving of the publish calls of the two publishing
\* tasks and of the reads, every delivery into a bounded FIFO is exactly one
\* of read, still queued, or evicted: the three are disjoint, none holds an
\* item twice, together they are the deliveries, and their sizes add up to
\* the number of deliveries; what was read followed by what is queued is in
\* delivery order.
C35_Linearizable ==
    \A q \in Fifos :
        LET kept == taken[q] \o buf[q]
        IN /\ Len(taken[q]) + Len(buf[q]) + Cardinality(evicted[q]) = Len(attempts[q])
           /\ Cardinality(Items(kept)) = Len(kept)
           /\ Items(kept) \cap evicted[q] = {}
           /\ Items(kept) \cup evicted[q] = Items(Tried(q))
           /\ \A i, j \in 1..Len(kept) :
                i < j => \E k, l \in 1..Len(attempts[q]) :
                            k < l /\ Tried(q)[k] = kept[i] /\ Tried(q)[l] = kept[j]

\* C35 witness: the second publish call, made by another task, delivered
\* into the bounded FIFO while the first call was still running; the first
\* item was evicted and the second one read
C35_Witness ==
    \E q \in Fifos :
        /\ Len(calls) = 2
        /\ calls[1].by # calls[2].by
        /\ calls[1].end = "running"
        /\ Len(attempts[q]) = 2
        /\ evicted[q] # {}
        /\ taken[q] # <<>>

\* ------------------------------------- claims on the isolated forwarder
\* the attempt the step has added to the deliveries tried on q, if any
NewAttempt(q) ==
    IF Len(attempts'[q]) > Len(attempts[q])
    THEN << attempts'[q][Len(attempts'[q])] >> ELSE <<>>

C37_AtMostOneResult ==
    /\ [](/\ done.result = FirstCompletion
          /\ (done.sender = Sink) <=> (done.result = None)
          /\ (done.result = None) <=> (handled[Sink] = <<>>)
          /\ \A i \in 1..Len(handled[Sink]) : handled[Sink][i].result = "Ok")
    /\ [][done.result # None => done' = done]_vars

\* C37 witness: the sink handled a compiled report and then a failure; the
\* channel carries the report
C37_Witness ==
    /\ Len(handled[Sink]) = 2
    /\ handled[Sink][1].event.event_type = "report.compiled"
    /\ handled[Sink][2].event.event_type = "pipeline.failed"
    /\ done = [sender |-> "none", result |-> [Ok |-> handled[Sink][1].event.event]]

\* ------------------------------------------------ claims on a single job
Submitted == \E n \in 1..Len(calls) : calls[n].event_type = "youtube.url_requested"

\* the work of a stage failed: its handler returned an error or published
\* the failure itself
StageFailed ==
    \/ \E w \in Stages : \E i \in 1..Len(handled[w]) : handled[w][i].result = "Err"
    \/ \E n \in 1..Len(calls) : calls[n].event_type = "pipeline.failed"

\* the completion channel carries a compiled report
ReportReceived ==
    /\ done.result # None
    /\ DOMAIN done.result = {"Ok"}
    /\ done.result.Ok.event_type = "report.compiled"

PublishedTags == UNION {Publishes[p] : p \in DOMAIN Publishes}

\* C39: every tag a task of the pipeline publishes has at least one route in
\* the table of the built bus, so on the strict-routing bus no publish is
\* counted as unrouted, none panics and the process is not aborted.
C39_EveryTagRouted ==
    /\ \A et \in PublishedTags : et \in DOMAIN table /\ Len(table[et]) >= 1
    /\ unrouted_publish_total = 0
    /\ ~aborted
    /\ \A p \in DOMAIN pub : pub[p].pc # "panicked"
    /\ \A n \in 1..Len(calls) : calls[n].end # "panicked"

\* C39 witness: on the strict-routing bus a PipelineFailed and a
\* ReportCompiled event were published and both calls returned
C39_Witness ==
    /\ strict_routing
    /\ Len(calls) = 2
    /\ {calls[1].event_type, calls[2].event_type} = {"pipeline.failed", "report.compiled"}
    /\ calls[1].end = "returned"
    /\ calls[2].end = "returned"

\* ------------------------------------------ claims on the drain task's end
\* C40: the drain task of an isolated subscription ends only when its inbox
\* is empty with every handle of the bus dropped, or when the receiver of its
\* output channel is dropped, and it stays ended; once the subscriber is gone
\* and the task has ended, every delivery to the subscription is rejected
\* and adds one to its drop counter; and a publish call in progress can
\* always take its next step.
C40_DrainEnds ==
    /\ [][\A q \in Isolateds :
            /\ (drain[q].pc # "done" /\ drain'[q].pc = "done") =>
                  \/ inbox[q] = <<>> /\ SendersDropped
                  \/ ReceiverDropped(q)
            /\ drain[q].pc = "done" => drain'[q].pc = "done"
            /\ (ReceiverDropped(q) /\ drain[q].pc = "done" /\ NewAttempt(q) # <<>>) =>
                  /\ ~NewAttempt(q)[1].ok
                  /\ drops_total'[q] = drops_total[q] + 1
                  /\ inbox'[q] = inbox[q]]_vars
    /\ [](\A p \in DOMAIN pub : pub[p].pc = "deliver" => ENABLED Deliver(p))

\* C40 witness: the subscriber went away, the drain task ended on the send
\* that failed, and a publish made afterwards was rejected, counted and has
\* returned
C40_Witness ==
    \E q \in Isolateds :
        /\ ReceiverDropped(q)
        /\ drain[q].pc = "done"
        /\ ~SendersDropped
        /\ attempts[q] # <<>>
        /\ ~attempts[q][Len(attempts[q])].ok
        /\ drops_total[q] = 1
        /\ calls[Len(calls)].end = "returned"

====
